---- MODULE Spec2Model ----
(***************************************************************************)
(* Model of the incident-data acquisition pipeline of metrosafe:           *)
(*   - CrimeFetcherQueue (src/src/services/policeApi.ts): the shared,      *)
(*     serial, time-spaced request queue with per-request retry;           *)
(*   - fetchCrimesForArea: the fan-out over the sample grid with progress  *)
(*     reporting, Promise.all and deduplication by persistent_id.          *)
(*                                                                         *)
(* JavaScript runs one task at a time.  One action of the model is one     *)
(* run-to-completion segment of the code: from the event that resumes it   *)
(* (a call from outside, an HTTP response, a timer, a promise reaction) to *)
(* the next await.  Time is measured in milliseconds.                      *)
(***************************************************************************)
EXTENDS Integers, Sequences, FiniteSets, TLC

\* ---- program constants -------------------------------------------------
REQUEST_DELAY_MS == 70
MAX_RETRIES == 3
\* sleep(1000) after a 429
COOLDOWN_MS == 1000
\* sleep(500 * attempt) after any other failure
BACKOFF_MS == 500

\* ---- bounds of the model -----------------------------------------------
\* fetchCrimes submissions in one run
MaxReq == 3
\* fetchCrimesForArea calls in one run
MaxArea == 2
\* sample points of one fetchCrimesForArea call
MaxGrid == 2
\* activations of processQueue that can be past the guard at once
MaxLoops == 2

\* the small amounts by which the clock advances while it is observed
SmallSteps == {50}

\* a CrimeRecord, reduced to its persistent_id and its id
Crime(pid, id) == [persistent_id |-> pid, id |-> id]

\* parsed bodies the upstream can send: lists of records; the incident with
\* persistent_id 'a' is in both (overlapping grid cells)
Bodies == {<<Crime("a", 1)>>, <<Crime("b", 2), Crime("a", 3)>>}

\* HTTP outcomes of one fetch(url): status 0 stands for fetch() throwing
\* (network-level exception); parses tells whether response.json() succeeds.
Responses ==
    [status : {404, 429, 500}, parses : {FALSE}, body : {<<>>}]
    \cup [status : {0}, parses : {FALSE}, body : {<<>>}]
    \cup [status : {200}, parses : {FALSE}, body : {<<>>}]
    \cup [status : {200}, parses : {TRUE}, body : Bodies]

NoError == [msg |-> "", status |-> 0]
RateLimitError == [msg |-> "Rate limit exceeded", status |-> 429]
NetworkError == [msg |-> "Failed to fetch", status |-> 0]
JsonError == [msg |-> "Unexpected token", status |-> 200]
HttpError(status) == [msg |-> "HTTP", status |-> status]

Min(a, b) == IF a < b THEN a ELSE b
Max(a, b) == IF a > b THEN a ELSE b

VARIABLES
    queue,        \* CrimeFetcherQueue.queue: ids of the pending requests
    isProcessing, \* CrimeFetcherQueue.isProcessing
    loops,        \* the activations of processQueue, by slot
    reqs,         \* every request submitted so far, by id (= submission order)
    microtasks,   \* requests whose awaiting continuation is scheduled
    areas,        \* the fetchCrimesForArea calls made so far
    sinceCall,    \* ms since the last HTTP call started (saturates)
    event,        \* what the step just taken did at the HTTP boundary
    callOrder,    \* request ids in the order of their first HTTP call
    settleOrder,  \* request ids in the order they were resolved / rejected
    progress,     \* useCrimeData: the progress state of the hook
    calc          \* the call of a synchronous function or of the location
                  \* resolver under study: its input, position and result

vars == <<queue, isProcessing, loops, reqs, microtasks, areas,
          sinceCall, event, callOrder, settleOrder, progress, calc>>

\* the variables of the request queue and of the area fetches
queueVars == <<queue, isProcessing, loops, reqs, microtasks, areas,
               sinceCall, event, callOrder, settleOrder, progress>>

LoopIds == 1..MaxLoops

\* an activation of processQueue: where it is parked (pc), the request and
\* attempt of the fetchWithRetry frame it is in, the status that the
\* previous attempt of that request got (-1: none), and its sleep timer
\* (dur: the ms passed to sleep, timer: the ms still to go)
IdleLoop == [pc |-> "idle", req |-> 0, attempt |-> 0, prev |-> -1,
             timer |-> 0, dur |-> 0]

NoResponse == [status |-> -1, parses |-> FALSE, body |-> <<>>]

\* event records the HTTP call started ("call": for which request, which
\* attempt, how long after the previous call (gap) and after how long a
\* sleep (waited)) or the HTTP outcome handled ("response") by the step
\* that led to the current state; any other step resets it.
NoEvent == [kind |-> "none", req |-> 0, attempt |-> 0, prev |-> -1,
            gap |-> 0, waited |-> 0, resp |-> NoResponse]

\* the program state as one value, so that the code's sequential
\* composition can be written as function application
State == [queue |-> queue, isProcessing |-> isProcessing, loops |-> loops,
          reqs |-> reqs, microtasks |-> microtasks, areas |-> areas,
          sinceCall |-> sinceCall, event |-> NoEvent,
          callOrder |-> callOrder, settleOrder |-> settleOrder,
          progress |-> progress]

Install(s) ==
    /\ queue' = s.queue
    /\ isProcessing' = s.isProcessing
    /\ loops' = s.loops
    /\ reqs' = s.reqs
    /\ microtasks' = s.microtasks
    /\ areas' = s.areas
    /\ sinceCall' = s.sinceCall
    /\ event' = s.event
    /\ callOrder' = s.callOrder
    /\ settleOrder' = s.settleOrder
    /\ progress' = s.progress
    /\ UNCHANGED calc

NoCalc == [fn |-> "none"]

\* the module-level crimeFetcher right after construction
QueueInit ==
    /\ queue = <<>>
    /\ isProcessing = FALSE
    /\ loops = [l \in LoopIds |-> IdleLoop]
    /\ reqs = <<>>
    /\ microtasks = <<>>
    /\ areas = <<>>
    /\ sinceCall = REQUEST_DELAY_MS
    /\ event = NoEvent
    /\ callOrder = <<>>
    /\ settleOrder = <<>>
    /\ progress = [completed |-> 0, total |-> 0]

Init == QueueInit /\ calc = NoCalc

\* ---- CrimeFetcherQueue -------------------------------------------------

NewRequest(owner) ==
    [owner |-> owner, st |-> "queued", data |-> <<>>, error |-> NoError]

\* sleep(ms) awaited by activation l; pc names the await it is parked at
Sleep(s, l, pc, ms) ==
    [s EXCEPT !.loops[l].pc = pc, !.loops[l].timer = ms, !.loops[l].dur = ms]

\* fetchWithRetry up to its first await: fetch(url) is called, which starts
\* one HTTP call for request r
fetchWithRetry(s, l, r, attempt) ==
    [s EXCEPT !.loops[l] = [pc |-> "awaitFetch", req |-> r,
                            attempt |-> attempt,
                            prev |-> IF attempt = 1 THEN -1 ELSE @.prev,
                            timer |-> 0, dur |-> 0],
              !.reqs[r].st = "running",
              !.sinceCall = 0,
              !.event = [kind |-> "call", req |-> r, attempt |-> attempt,
                         prev |-> IF attempt = 1 THEN -1 ELSE s.loops[l].prev,
                         gap |-> s.sinceCall,
                         waited |-> s.loops[l].dur - s.loops[l].timer,
                         resp |-> NoResponse],
              !.callOrder = IF attempt = 1 THEN Append(@, r) ELSE @]

\* queue.pop() in place of queue.shift(): the newest request is taken
Shift_fromEnd(q) == [item |-> q[Len(q)], rest |-> SubSeq(q, 1, Len(q) - 1)]

\* queue.shift()
Shift(q) == [item |-> Head(q), rest |-> Tail(q)]

\* the loop is left without line 40: isProcessing stays true
LoopExit_keepsFlag(s, l) == [s EXCEPT !.loops[l] = IdleLoop]

\* line 40: the loop is left
LoopExit(s, l) ==
    [s EXCEPT !.isProcessing = FALSE, !.loops[l] = IdleLoop]

\* lines 28-31: the loop test, and the dispatch of the head request
WhileLoop(s, l) ==
    IF Len(s.queue) > 0
    THEN LET sh == Shift(s.queue)
         IN fetchWithRetry([s EXCEPT !.queue = sh.rest], l, sh.item, 1)
    ELSE LoopExit(s, l)

\* lines 36-38 and back to the loop test
AfterSettle(s, l) ==
    IF Len(s.queue) > 0
    THEN Sleep([s EXCEPT !.loops[l] = IdleLoop], l, "gapSleep", REQUEST_DELAY_MS)
    ELSE WhileLoop(s, l)

\* request.resolve(data): the promise of fetchCrimes is fulfilled; the
\* continuation awaiting it (in fetchCrimesForArea) is scheduled
Resolve(s, r, data) ==
    [s EXCEPT !.reqs[r].st = "resolved",
              !.reqs[r].data = data,
              !.settleOrder = Append(@, r),
              !.microtasks = Append(@, r)]

\* request.reject(error)
Reject(s, r, error) ==
    [s EXCEPT !.reqs[r].st = "rejected",
              !.reqs[r].error = error,
              !.settleOrder = Append(@, r),
              !.microtasks = Append(@, r)]

\* response.ok
ResponseOk(status) == status >= 200 /\ status <= 299

\* sleep(500) in place of sleep(500 * attempt)
Catch_flatBackoff(s, l, error) ==
    LET lp == s.loops[l]
    IN IF lp.attempt >= MAX_RETRIES
       THEN AfterSettle(Reject(s, lp.req, error), l)
       ELSE Sleep(s, l, "sleepRetry", BACKOFF_MS)

\* attempt > MAX_RETRIES in place of attempt >= MAX_RETRIES on line 61
Catch_offByOne(s, l, error) ==
    LET lp == s.loops[l]
    IN IF lp.attempt > MAX_RETRIES
       THEN AfterSettle(Reject(s, lp.req, error), l)
       ELSE Sleep(s, l, "sleepRetry", BACKOFF_MS * lp.attempt)

\* a request that was throttled on the attempt before is rejected with
\* 'Rate limit exceeded', whatever its last attempt got
Catch_rememberThrottle(s, l, error) ==
    LET lp == s.loops[l]
    IN IF lp.attempt >= MAX_RETRIES
       THEN AfterSettle(Reject(s, lp.req,
                               IF s.event.prev = 429 THEN RateLimitError
                               ELSE error), l)
       ELSE Sleep(s, l, "sleepRetry", BACKOFF_MS * lp.attempt)

\* lines 60-64: the catch block of the attempt that is running
Catch(s, l, error) ==
    LET lp == s.loops[l]
    IN IF lp.attempt >= MAX_RETRIES
       THEN AfterSettle(Reject(s, lp.req, error), l)
       ELSE Sleep(s, l, "sleepRetry", BACKOFF_MS * lp.attempt)

\* attempt > MAX_RETRIES in place of attempt >= MAX_RETRIES on line 49
On429_offByOne(s, l) ==
    IF s.loops[l].attempt > MAX_RETRIES
    THEN Catch(s, l, RateLimitError)
    ELSE Sleep(s, l, "sleep429", COOLDOWN_MS)

\* lines 48-52: the upstream answered 429
On429(s, l) ==
    IF s.loops[l].attempt >= MAX_RETRIES
    THEN Catch(s, l, RateLimitError)
    ELSE Sleep(s, l, "sleep429", COOLDOWN_MS)

\* without lines 54-56 a 404 falls through to the !response.ok throw
On404_asError(s, l) == Catch(s, l, HttpError(404))

\* lines 54-56: the upstream answered 404
On404(s, l) == AfterSettle(Resolve(s, s.loops[l].req, <<>>), l)

\* the parsed body is dropped: the request resolves with the empty list
OnOk_dropsBody(s, l, resp) ==
    IF resp.parses
    THEN AfterSettle(Resolve(s, s.loops[l].req, <<>>), l)
    ELSE Catch(s, l, JsonError)

\* line 59: response.json() of a 2xx response
OnOk(s, l, resp) ==
    IF resp.parses
    THEN AfterSettle(Resolve(s, s.loops[l].req, resp.body), l)
    ELSE Catch(s, l, JsonError)

\* lines 46-64: fetchWithRetry resumed by the outcome of fetch(url)
OnResponse(s, l, resp) ==
    LET lp == s.loops[l]
        s1 == [s EXCEPT !.loops[l].prev = resp.status,
                        !.event = [kind |-> "response", req |-> lp.req,
                                   attempt |-> lp.attempt, prev |-> lp.prev,
                                   gap |-> 0, waited |-> 0, resp |-> resp]]
    IN IF resp.status = 0 THEN Catch(s1, l, NetworkError)
       ELSE IF resp.status = 429 THEN On429(s1, l)
       ELSE IF resp.status = 404 THEN On404(s1, l)
       ELSE IF ~ResponseOk(resp.status) THEN Catch(s1, l, HttpError(resp.status))
       ELSE OnOk(s1, l, resp)

\* the guard without the isProcessing test
ProcessQueueReturnsEarly_noFlag(s) == Len(s.queue) = 0

\* line 25: the guard of processQueue
ProcessQueueReturnsEarly(s) == s.isProcessing \/ Len(s.queue) = 0

IdleLoops(s) == {l \in LoopIds : s.loops[l].pc = "idle"}

\* lines 24-31: processQueue called; a call that passes the guard becomes
\* a new activation of the dispatch loop
processQueue(s) ==
    IF ProcessQueueReturnsEarly(s) \/ IdleLoops(s) = {}
    THEN s
    ELSE LET l == CHOOSE k \in IdleLoops(s) : \A j \in IdleLoops(s) : k <= j
         IN WhileLoop([s EXCEPT !.isProcessing = TRUE], l)

\* the request is pushed and processQueue is not called
fetchCrimes_noKick(s, owner) ==
    [s EXCEPT !.queue = Append(@, Len(s.reqs) + 1),
              !.reqs = Append(@, NewRequest(owner))]

\* queue.unshift in place of queue.push: the request goes to the front
fetchCrimes_atFront(s, owner) ==
    LET id == Len(s.reqs) + 1
    IN processQueue([s EXCEPT !.queue = <<id>> \o @,
                              !.reqs = Append(@, NewRequest(owner))])

\* lines 17-22: fetchCrimes called by the owner-th fetchCrimesForArea call
fetchCrimes(s, owner) ==
    LET id == Len(s.reqs) + 1
    IN processQueue([s EXCEPT !.queue = Append(@, id),
                              !.reqs = Append(@, NewRequest(owner))])

\* ---- fetchCrimesForArea ------------------------------------------------

RECURSIVE Flatten(_)
Flatten(results) ==
    IF results = <<>> THEN <<>> ELSE Head(results) \o Flatten(Tail(results))

RECURSIVE UniqueFrom_byRecord(_, _)
\* UniqueFrom with the Set holding whole records instead of persistent_ids
UniqueFrom_byRecord(crimes, seen) ==
    IF crimes = <<>> THEN <<>>
    ELSE IF Head(crimes) \in seen
         THEN UniqueFrom_byRecord(Tail(crimes), seen)
         ELSE <<Head(crimes)>>
              \o UniqueFrom_byRecord(Tail(crimes), seen \cup {Head(crimes)})

RECURSIVE UniqueFrom_dropsEmpty(_, _)
\* UniqueFrom that skips the records whose persistent_id is empty
UniqueFrom_dropsEmpty(crimes, seen) ==
    IF crimes = <<>> THEN <<>>
    ELSE IF Head(crimes).persistent_id = "" \/ Head(crimes).persistent_id \in seen
         THEN UniqueFrom_dropsEmpty(Tail(crimes), seen)
         ELSE <<Head(crimes)>>
              \o UniqueFrom_dropsEmpty(Tail(crimes),
                                       seen \cup {Head(crimes).persistent_id})

RECURSIVE UniqueFrom(_, _)
\* lines 141-150 over the flattened results: seen is the Set, the value is
\* what is pushed to uniqueCrimes
UniqueFrom(crimes, seen) ==
    IF crimes = <<>> THEN <<>>
    ELSE IF Head(crimes).persistent_id \in seen
         THEN UniqueFrom(Tail(crimes), seen)
         ELSE <<Head(crimes)>>
              \o UniqueFrom(Tail(crimes), seen \cup {Head(crimes).persistent_id})

\* lines 140-151
Dedupe(results) == UniqueFrom(Flatten(results), {})

NewArea(first, n) ==
    [first |-> first, total |-> n, completed |-> 0, progress |-> <<>>,
     done |-> {}, st |-> IF n = 0 THEN "resolved" ELSE "pending",
     data |-> <<>>, error |-> NoError]

Samples(ar) == ar.first .. (ar.first + ar.total - 1)

RECURSIVE MapSamples(_, _, _)
\* line 132: coordinates.map runs each callback up to its await, i.e. one
\* fetchCrimes call per sample point, in grid order
MapSamples(s, a, k) ==
    IF k = 0 THEN s ELSE fetchCrimes(MapSamples(s, a, k - 1), a)

\* lines 126-133
fetchCrimesForArea(s, n) ==
    LET a == Len(s.areas) + 1
    IN MapSamples([s EXCEPT !.areas = Append(@, NewArea(Len(s.reqs) + 1, n))],
                  a, n)

\* Promise.all: fulfilled once every callback has returned
AllFulfilled(ar) == ar.done = Samples(ar)

\* useCrimeData, lines 22-24: the onProgress callback that the hook passes
\* to every fetchCrimesForArea call
handleProgress(s, completed, total) ==
    [s EXCEPT !.progress = [completed |-> completed, total |-> total]]

\* onProgress is invoked twice for the sample
SampleFulfilled_reportsTwice(s, a, r) ==
    LET ar == s.areas[a]
        completed == ar.completed + 1
        entry == [req |-> r, completed |-> completed, total |-> ar.total]
        ar1 == [ar EXCEPT !.completed = completed,
                          !.progress = @ \o <<entry, entry>>,
                          !.done = @ \cup {r}]
        results == [i \in 1..ar.total |-> s.reqs[ar.first + i - 1].data]
        s1 == handleProgress(s, completed, ar.total)
    IN IF AllFulfilled(ar1) /\ ar1.st = "pending"
       THEN [s1 EXCEPT !.areas[a] = [ar1 EXCEPT !.st = "resolved",
                                                !.data = Dedupe(results)]]
       ELSE [s1 EXCEPT !.areas[a] = ar1]

\* completed is one counter for all calls instead of a local of each call
SampleFulfilled_sharedCounter(s, a, r) ==
    LET ar == s.areas[a]
        completed ==
            1 + Cardinality({p \in (DOMAIN s.areas) \X (DOMAIN s.reqs) :
                                p[2] \in DOMAIN s.areas[p[1]].progress})
        ar1 == [ar EXCEPT !.completed = completed,
                          !.progress = Append(@, [req |-> r,
                                                  completed |-> completed,
                                                  total |-> ar.total]),
                          !.done = @ \cup {r}]
        results == [i \in 1..ar.total |-> s.reqs[ar.first + i - 1].data]
        s1 == handleProgress(s, completed, ar.total)
    IN IF AllFulfilled(ar1) /\ ar1.st = "pending"
       THEN [s1 EXCEPT !.areas[a] = [ar1 EXCEPT !.st = "resolved",
                                                !.data = Dedupe(results)]]
       ELSE [s1 EXCEPT !.areas[a] = ar1]

\* lines 134-136 for sample r of call a, then Promise.all and lines 140-151
SampleFulfilled(s, a, r) ==
    LET ar == s.areas[a]
        completed == ar.completed + 1
        ar1 == [ar EXCEPT !.completed = completed,
                          !.progress = Append(@, [req |-> r,
                                                  completed |-> completed,
                                                  total |-> ar.total]),
                          !.done = @ \cup {r}]
        results == [i \in 1..ar.total |-> s.reqs[ar.first + i - 1].data]
        s1 == handleProgress(s, completed, ar.total)
    IN IF AllFulfilled(ar1) /\ ar1.st = "pending"
       THEN [s1 EXCEPT !.areas[a] = [ar1 EXCEPT !.st = "resolved",
                                                !.data = Dedupe(results)]]
       ELSE [s1 EXCEPT !.areas[a] = ar1]

\* the failure of a sample is swallowed (as Promise.allSettled with the
\* failed samples counted as empty would do)
SampleRejected_swallowed(s, a, r) == SampleFulfilled(s, a, r)

\* the rejection cancels the call: its requests still pending are taken out
\* of the queue
SampleRejected_cancels(s, a, r) ==
    IF s.areas[a].st = "pending"
    THEN [s EXCEPT !.areas[a].st = "rejected",
                   !.areas[a].error = s.reqs[r].error,
                   !.queue = SelectSeq(@, LAMBDA q : q \notin Samples(s.areas[a]))]
    ELSE s

\* every failing sample overwrites the error the call rejects with
SampleRejected_lastError(s, a, r) ==
    [s EXCEPT !.areas[a].st = "rejected",
              !.areas[a].error = s.reqs[r].error]

\* the await of line 133 throws: the callback's promise rejects and
\* Promise.all rejects with the first such error
SampleRejected(s, a, r) ==
    IF s.areas[a].st = "pending"
    THEN [s EXCEPT !.areas[a].st = "rejected",
                   !.areas[a].error = s.reqs[r].error]
    ELSE s

\* the continuation of `await crimeFetcher.fetchCrimes(...)`
Continuation(s, r) ==
    LET a == s.reqs[r].owner
        s1 == [s EXCEPT !.microtasks = Tail(@)]
    IN IF s.reqs[r].st = "resolved"
       THEN SampleFulfilled(s1, a, r)
       ELSE SampleRejected(s1, a, r)

\* useCrimeData, lines 28-32: the queryFn of the hook, run by the query layer
\* for a new (lat, lon, radius) key and for each retry of a failed fetch
queryFn(s, n) ==
    fetchCrimesForArea(handleProgress(s, 0, 0), n)

\* ---- actions -----------------------------------------------------------

\* the hook's queryFn runs: fetchCrimesForArea, the caller of
\* crimeFetcher.fetchCrimes, is called for a grid of n sample points (the grid of a radius >= 0 holds at least
\* the centre)
FetchCrimesForArea ==
    /\ microtasks = <<>>
    /\ Len(areas) < MaxArea
    /\ \E n \in 1..MaxGrid :
        /\ Len(reqs) + n <= MaxReq
        /\ Install(queryFn(State, n))

\* the HTTP call of activation l completes with outcome resp
HttpResponds ==
    /\ microtasks = <<>>
    /\ \E l \in LoopIds, resp \in Responses :
        /\ loops[l].pc = "awaitFetch"
        /\ Install(OnResponse(State, l, resp))

\* the timer of a retry sleep (lines 50, 62) fires: lines 51 / 63
RetryTimerFires ==
    /\ microtasks = <<>>
    /\ \E l \in LoopIds :
        /\ loops[l].pc \in {"sleep429", "sleepRetry"}
        /\ loops[l].timer = 0
        /\ Install(fetchWithRetry(State, l, loops[l].req, loops[l].attempt + 1))

\* the timer of the inter-request sleep (line 37) fires: back to line 28
GapTimerFires ==
    /\ microtasks = <<>>
    /\ \E l \in LoopIds :
        /\ loops[l].pc = "gapSleep"
        /\ loops[l].timer = 0
        /\ Install(WhileLoop(State, l))

Sleeping(lp) == lp.pc \in {"sleep429", "sleepRetry", "gapSleep"}

\* The clock is observed through sinceCall, which saturates at
\* REQUEST_DELAY_MS, and through the timers.  It advances by a small step
\* while sinceCall is not saturated, or up to the instant a running timer
\* is due; a timer that is due fires at that instant or any time later.
TickChoices ==
    {d \in SmallSteps : sinceCall < REQUEST_DELAY_MS}
    \cup {loops[l].timer : l \in {k \in LoopIds : Sleeping(loops[k]) /\ loops[k].timer > 0}}

\* d ms pass
Tick ==
    /\ microtasks = <<>>
    /\ \E d \in TickChoices :
        /\ loops' = [l \in LoopIds |->
                        IF Sleeping(loops[l])
                        THEN [loops[l] EXCEPT !.timer = Max(0, @ - d)]
                        ELSE loops[l]]
        /\ sinceCall' = Min(REQUEST_DELAY_MS, sinceCall + d)
        /\ event' = NoEvent
        /\ UNCHANGED <<queue, isProcessing, reqs, microtasks, areas,
                       callOrder, settleOrder, progress, calc>>

\* the promise reaction at the head of the microtask queue runs
RunMicrotask ==
    /\ microtasks # <<>>
    /\ Install(Continuation(State, Head(microtasks)))

Next ==
    \/ FetchCrimesForArea
    \/ HttpResponds
    \/ RetryTimerFires
    \/ GapTimerFires
    \/ Tick
    \/ RunMicrotask

Spec == Init /\ [][Next]_vars

\* every HTTP call eventually returns or throws, every timer eventually
\* fires, time passes, and the microtask queue is drained
FairSpec ==
    /\ Spec
    /\ WF_vars(HttpResponds)
    /\ WF_vars(RetryTimerFires)
    /\ WF_vars(GapTimerFires)
    /\ WF_vars(Tick)
    /\ WF_vars(RunMicrotask)

\* ---- properties --------------------------------------------------------

Settled(r) == reqs[r].st \in {"resolved", "rejected"}

ActiveLoops == {l \in LoopIds : loops[l].pc # "idle"}

Executing == {l \in LoopIds : loops[l].pc \in {"awaitFetch", "sleep429", "sleepRetry"}}

\* the activation that is parked in a sleep of ms milliseconds for request r
SleepsFor(r, pc, ms) ==
    \E l \in LoopIds :
        /\ loops[l].req = r
        /\ loops[l].pc = pc
        /\ loops[l].dur = ms
        /\ loops[l].timer = ms

\* number of onProgress invocations of call ar made for sample r
ProgressCount(ar, r) ==
    Cardinality({i \in DOMAIN ar.progress : ar.progress[i].req = r})

\* the continuation awaiting request r has run
ContinuationRan(r) == \A i \in DOMAIN microtasks : microtasks[i] # r

\* C1: any two consecutive HTTP calls of the queue start at least
\* REQUEST_DELAY_MS (70 ms) apart, whatever the timing of the submissions
\* (also for a submission that arrives after the loop has exited).
C1_MinSpacing ==
    event.kind = "call" => event.gap >= 70

\* C2: at most one dispatch loop is past the isProcessing guard and at most
\* one request is in execution (HTTP call or retry wait) at any time; no
\* request submitted behind another is dispatched before that one settled.
C2_SingleDispatch ==
    /\ Cardinality(ActiveLoops) <= 1
    /\ Cardinality(Executing) <= 1
    /\ Cardinality({r \in DOMAIN reqs : reqs[r].st = "running"}) <= 1
    /\ \A r, q \in DOMAIN reqs :
        (r < q /\ reqs[q].st # "queued") => Settled(r)

\* a request retries while another waits behind it
C2_Witness ==
    /\ \E l \in LoopIds : loops[l].pc = "sleep429" /\ loops[l].attempt = 2
    /\ Len(queue) > 0

\* C3: requests get their first HTTP call in the order in which fetchCrimes
\* was called, and settle in that order, also when some of them retry.
C3_Fifo ==
    /\ \A i \in DOMAIN callOrder : callOrder[i] = i
    /\ \A i \in DOMAIN settleOrder : settleOrder[i] = i

\* the second of three requests settles on a retry, the third still queued
C3_Witness ==
    /\ event.kind = "response"
    /\ event.req = 2
    /\ event.attempt = 2
    /\ settleOrder = <<1, 2>>
    /\ queue = <<3>>

\* C4: if every HTTP call returns or throws and every timer fires, every
\* request submitted with fetchCrimes is eventually resolved or rejected,
\* whatever the upstream answers.
\* (A settled request stays settled and submissions only add requests, so
\* this is: again and again every request submitted so far has settled.)
C4_EverySubmissionSettles ==
    []<>(\A r \in DOMAIN reqs : Settled(r))

\* every request of a full run has settled, the last one after three 500s
C4_Witness ==
    /\ Len(settleOrder) = MaxReq
    /\ event.kind = "response"
    /\ event.req = MaxReq
    /\ event.attempt = 3
    /\ event.resp.status = 500
    /\ event.prev = 500

\* C5: on a 429, fetchWithRetry sleeps 1000 ms and then retries the same
\* request; a 429 received by attempt MAX_RETRIES (3) rejects the request
\* with 'Rate limit exceeded'.
C5_ThrottleCooldown ==
    /\ (event.kind = "response" /\ event.resp.status = 429) =>
          IF event.attempt = 3
          THEN /\ reqs[event.req].st = "rejected"
               /\ reqs[event.req].error = RateLimitError
          ELSE /\ event.attempt < 3
               /\ reqs[event.req].st = "running"
               /\ SleepsFor(event.req, "sleep429", 1000)
    /\ (event.kind = "call" /\ event.prev = 429) =>
          /\ event.waited = 1000
          /\ event.waited > REQUEST_DELAY_MS
          /\ event.attempt \in {2, 3}

\* the third 429 in a row rejects the request
C5_Witness ==
    /\ event.kind = "response"
    /\ event.resp.status = 429
    /\ event.prev = 429
    /\ event.attempt = 3
    /\ reqs[event.req].error = RateLimitError

\* the failures C6 is about: a status that is not 2xx, 429 or 404, or an
\* exception thrown by fetch
IsOtherFailure(resp) ==
    \/ resp.status = 0
    \/ resp.status > 0 /\ resp.status \notin {404, 429} /\ ~ResponseOk(resp.status)

UnderlyingError(resp) ==
    IF resp.status = 0 THEN NetworkError ELSE [msg |-> "HTTP", status |-> resp.status]

\* C6: on any other non-2xx status or a network exception, fetchWithRetry
\* retries after 500 ms times the attempt number; when attempt 3 fails that
\* way the request is rejected with the error of that failure.
C6_LinearBackoff ==
    /\ (event.kind = "response" /\ IsOtherFailure(event.resp)) =>
          IF event.attempt = 3
          THEN /\ reqs[event.req].st = "rejected"
               /\ reqs[event.req].error = UnderlyingError(event.resp)
          ELSE /\ event.attempt < 3
               /\ reqs[event.req].st = "running"
               /\ SleepsFor(event.req, "sleepRetry", 500 * event.attempt)
    /\ (event.kind = "call" /\ event.prev \in {0, 500}) =>
          /\ event.attempt \in {2, 3}
          /\ event.waited = 500 * (event.attempt - 1)

\* the third attempt is made 1000 ms after the second one failed
C6_Witness ==
    /\ event.kind = "call"
    /\ event.attempt = 3
    /\ event.prev = 500
    /\ event.waited = 1000

\* C7: a 404 resolves the request with the empty list; the request is
\* neither retried nor rejected.
C7_NotFoundIsEmpty ==
    /\ (event.kind = "response" /\ event.resp.status = 404) =>
          /\ reqs[event.req].st = "resolved"
          /\ reqs[event.req].data = <<>>
          /\ reqs[event.req].error = NoError
          /\ \A l \in LoopIds : loops[l].req # event.req
          /\ \A i \in DOMAIN queue : queue[i] # event.req
    /\ event.kind = "call" => event.prev # 404

\* a 404 on the retry that follows a 500
C7_Witness ==
    /\ event.kind = "response"
    /\ event.resp.status = 404
    /\ event.attempt = 2
    /\ event.prev = 500
    /\ reqs[event.req].st = "resolved"

\* C8: a request whose first HTTP call returns 429 and whose retry returns
\* 200 (with a body that parses) resolves with the parsed body of that
\* response; no error reaches the caller of fetchCrimes.
C8_ThrottledThenOk ==
    (/\ event.kind = "response"
     /\ event.attempt = 2
     /\ event.prev = 429
     /\ event.resp.status = 200
     /\ event.resp.parses) =>
        /\ reqs[event.req].st = "resolved"
        /\ reqs[event.req].data = event.resp.body
        /\ reqs[event.req].error = NoError

\* 429 then 200 with the body of two records
C8_Witness ==
    /\ event.kind = "response"
    /\ event.attempt = 2
    /\ event.prev = 429
    /\ event.resp.status = 200
    /\ Len(event.resp.body) = 2
    /\ reqs[event.req].data = <<Crime("b", 2), Crime("a", 3)>>

\* C9: if the fetch of any sample point of a fetchCrimesForArea call fails,
\* the call rejects; it never resolves with the records of the samples
\* that succeeded.
C9_AnyFailureRejects ==
    \A a \in DOMAIN areas :
        /\ (\E r \in Samples(areas[a]) :
                reqs[r].st = "rejected" /\ ContinuationRan(r))
              => areas[a].st = "rejected"
        /\ areas[a].st = "resolved"
              => \A r \in Samples(areas[a]) : reqs[r].st = "resolved"

\* one sample of a call returned records, the other failed
C9_Witness ==
    \E a \in DOMAIN areas :
        /\ areas[a].total = 2
        /\ areas[a].st = "rejected"
        /\ reqs[areas[a].first].st = "resolved"
        /\ reqs[areas[a].first].data # <<>>
        /\ reqs[areas[a].first + 1].st = "rejected"
        /\ microtasks = <<>>

\* C10 as stated: once the queued fetch of a sample point has settled,
\* onProgress has been invoked exactly once for it, so that a call over n
\* sample points makes exactly n invocations.
C10_OncePerSettledSample ==
    \A a \in DOMAIN areas :
        /\ \A r \in Samples(areas[a]) :
              (Settled(r) /\ ContinuationRan(r)) => ProgressCount(areas[a], r) = 1
        /\ (\A r \in Samples(areas[a]) : Settled(r) /\ ContinuationRan(r))
              => Len(areas[a].progress) = areas[a].total

\* C10 amended: onProgress is invoked exactly once for each sample point
\* whose fetch resolves (empty results and results after retries included)
\* and never for one whose fetch rejects or is still pending; a call over n
\* sample points makes as many invocations as samples have resolved, n when
\* all of them resolve.
C10_OncePerResolvedSample ==
    \A a \in DOMAIN areas :
        /\ \A r \in Samples(areas[a]) :
              ProgressCount(areas[a], r) =
                  IF reqs[r].st = "resolved" /\ ContinuationRan(r) THEN 1 ELSE 0
        /\ Len(areas[a].progress) =
              Cardinality({r \in Samples(areas[a]) :
                              reqs[r].st = "resolved" /\ ContinuationRan(r)})
        /\ \A i \in DOMAIN areas[a].progress :
              areas[a].progress[i].req \in Samples(areas[a])

\* a call over two sample points, one of them empty, made two invocations
C10_Witness ==
    \E a \in DOMAIN areas :
        /\ areas[a].total = 2
        /\ Len(areas[a].progress) = 2
        /\ reqs[areas[a].first].data = <<>>
        /\ reqs[areas[a].first + 1].data # <<>>
        /\ areas[a].st = "resolved"

\* C23: fetchWithRetry makes at most MAX_RETRIES (3) HTTP calls for a request,
\* whatever the upstream answers: the calls of a request are its attempts 1,
\* 2, 3 in turn, 429 retries and error retries counted together, and a
\* request whose third attempt failed is settled, not retried.
C23_AtMostThreeCalls ==
    /\ [](event.kind = "call" =>
            /\ event.attempt \in 1..3
            /\ event.attempt = 1 =>
                  /\ callOrder # <<>>
                  /\ callOrder[Len(callOrder)] = event.req
                  /\ \A i \in 1..(Len(callOrder) - 1) : callOrder[i] # event.req)
    /\ []((event.kind = "response" /\ event.attempt = 3) =>
            /\ Settled(event.req)
            /\ \A l \in LoopIds : loops[l].req # event.req)
    /\ [][(event'.kind = "call" /\ event'.attempt > 1) =>
            \E l \in LoopIds :
                /\ loops[l].req = event'.req
                /\ loops[l].attempt = event'.attempt - 1
                /\ loops[l].pc \in {"sleep429", "sleepRetry"}]_vars

\* a 429 on the second attempt, a 500 on the third: the request is rejected
C23_Witness ==
    /\ event.kind = "response"
    /\ event.attempt = 3
    /\ event.prev = 429
    /\ event.resp.status = 500
    /\ reqs[event.req].st = "rejected"
    /\ reqs[event.req].error = HttpError(500)

\* C24: no lost wake-up.  Whenever the queue's code is suspended or not
\* running, a non-empty pending list means that isProcessing is true and a
\* dispatch loop is active; isProcessing is true only while a loop is active,
\* so once a loop has drained the list and exited, the next submission
\* starts a new loop.
C24_NoLostWakeup ==
    /\ [](Len(queue) > 0 => isProcessing /\ ActiveLoops # {})
    /\ [](isProcessing <=> ActiveLoops # {})
    /\ [][(~isProcessing /\ Len(reqs') > Len(reqs)) =>
            /\ isProcessing'
            /\ \E l \in LoopIds :
                  /\ loops'[l].pc = "awaitFetch"
                  /\ loops'[l].req = Len(reqs) + 1]_vars

\* a loop has drained the list and exited; a submission made afterwards is
\* being fetched by a new loop
C24_Witness ==
    /\ Len(reqs) = 2
    /\ reqs[1].st = "resolved"
    /\ reqs[2].st = "running"
    /\ Len(areas) = 2
    /\ areas[1].st = "resolved"
    /\ isProcessing
    /\ queue = <<>>

\* C25: within one fetchCrimesForArea call the successive onProgress
\* invocations carry completed = 1, 2, 3, ..., always with the same total,
\* the size of the call's grid, and completed never exceeds total; the
\* counter of a call is changed only by the callbacks of its own samples,
\* by one at a time.
C25_ProgressCountsUp ==
    /\ [](\A a \in DOMAIN areas :
            /\ areas[a].completed = Len(areas[a].progress)
            /\ areas[a].completed <= areas[a].total
            /\ \A i \in DOMAIN areas[a].progress :
                  /\ areas[a].progress[i].completed = i
                  /\ areas[a].progress[i].total = areas[a].total
                  /\ areas[a].progress[i].total = Cardinality(Samples(areas[a])))
    /\ [][\A a \in DOMAIN areas :
            areas'[a].completed # areas[a].completed =>
                /\ microtasks # <<>>
                /\ reqs[Head(microtasks)].owner = a
                /\ areas'[a].completed = areas[a].completed + 1
                /\ \A b \in DOMAIN areas \ {a} :
                      areas'[b].completed = areas[b].completed]_vars

\* the first of two samples of a call has been reported while a second
\* call, made in the meantime, waits for its sample
C25_Witness ==
    /\ Len(areas) = 2
    /\ areas[1].total = 2
    /\ areas[1].st = "pending"
    /\ areas[1].progress = <<[req |-> 1, completed |-> 1, total |-> 2]>>
    /\ areas[2].completed = 0
    /\ reqs[2].st = "running"

\* the fetch of the hook's current key: the latest queryFn run
Current == Len(areas)

\* C26: the progress value exposed by useCrimeData is not shared across area
\* fetches.  While the fetch of the current key is in flight, progress is
\* updated only by that fetch, so that after the reset to {0, 0} its
\* completed count never decreases and its total never changes, also when an
\* earlier fetch still has requests in the shared queue.
C26_ProgressOfCurrentFetch ==
    [][(/\ areas # <<>>
        /\ areas[Current].st = "pending"
        /\ Len(areas') = Len(areas)
        /\ progress' # progress) =>
            /\ microtasks # <<>>
            /\ reqs[Head(microtasks)].owner = Current
            /\ progress'.completed >= progress.completed
            /\ progress.total \in {0, progress'.total}]_vars

\* the hook shows {2, 2}, the last report of the first fetch, while the
\* second fetch, of one sample, is in flight
C26_StaleProgress ==
    /\ Len(areas) = 2
    /\ areas[1].total = 2
    /\ areas[2].total = 1
    /\ areas[2].st = "pending"
    /\ areas[2].completed = 0
    /\ progress = [completed |-> 2, total |-> 2]

\* the reports of the first fetch, which has already rejected, overwrite the
\* hook's progress during the retry
C26_ProgressOfFailedAttempt ==
    /\ Len(areas) = 2
    /\ areas[1].st = "rejected"
    /\ areas[2].st = "pending"
    /\ areas[2].completed = 0
    /\ progress.completed > 0

InQueue(r) == \E i \in DOMAIN queue : queue[i] = r

\* C27: there is no cancellation.  The requests of a fetchCrimesForArea call
\* that are still pending when the call rejects stay in the queue; each is
\* dispatched in its turn, ahead of the requests submitted after it, and
\* onProgress is still invoked for those that succeed after the rejection.
C27_NoCancellation ==
    /\ [](\A r \in DOMAIN reqs : reqs[r].st = "queued" <=> InQueue(r))
    /\ [](\A r, q \in DOMAIN reqs :
            (/\ areas[reqs[r].owner].st = "rejected"
             /\ r < q
             /\ reqs[q].st # "queued") => Settled(r))
    /\ [](\A a \in DOMAIN areas : \A r \in Samples(areas[a]) :
            (/\ areas[a].st = "rejected"
             /\ reqs[r].st = "resolved"
             /\ ContinuationRan(r)) => ProgressCount(areas[a], r) = 1)
    /\ [][\A a \in DOMAIN areas :
            (areas[a].st = "pending" /\ areas'[a].st = "rejected") =>
                /\ queue' = queue
                /\ reqs' = reqs
                /\ loops' = loops]_vars

\* the first sample of a call failed and the call rejected; its second
\* sample was fetched nevertheless and reported, and the request of the
\* next call waits behind it
C27_Witness ==
    /\ Len(areas) = 2
    /\ areas[1].st = "rejected"
    /\ reqs[1].st = "rejected"
    /\ areas[1].progress = <<[req |-> 2, completed |-> 1, total |-> 2]>>
    /\ reqs[3].st = "queued"
    /\ queue = <<3>>

\* the samples of call ar whose failure has reached the call
FailedSamples(ar) ==
    {r \in Samples(ar) : reqs[r].st = "rejected" /\ ContinuationRan(r)}

\* the errors fetchWithRetry throws for the upstream outcomes considered
ThrownErrors == {RateLimitError, NetworkError, JsonError, HttpError(500)}

\* C28: a fetchCrimesForArea call that rejects does so with the very error
\* of the sample whose fetch exhausted its retries, unwrapped; when several
\* samples fail, with the error of the first sample to fail, which is the
\* earliest failing sample in grid order.
C28_FirstErrorUnwrapped ==
    \A a \in DOMAIN areas :
        LET failed == FailedSamples(areas[a])
        IN  /\ areas[a].st = "rejected" <=> failed # {}
            /\ areas[a].st = "rejected" =>
                  LET first == CHOOSE r \in failed : \A q \in failed : r <= q
                  IN  /\ areas[a].error = reqs[first].error
                      /\ areas[a].error \in ThrownErrors
                      /\ \A i, j \in DOMAIN settleOrder :
                            (settleOrder[i] = first /\ settleOrder[j] \in failed)
                                => i <= j
            /\ areas[a].st # "rejected" => areas[a].error = NoError

\* both samples of a call failed, the first throttled to the end, the
\* second on the network: the call rejected with 'Rate limit exceeded'
C28_Witness ==
    /\ areas # <<>>
    /\ areas[1].total = 2
    /\ reqs[1].error = RateLimitError
    /\ reqs[2].error = NetworkError
    /\ microtasks = <<>>
    /\ areas[1].st = "rejected"
    /\ areas[1].error = RateLimitError

\* C29: of two fetchCrimesForArea calls started one after the other, all
\* sample requests of the earlier call enter the shared queue before any of
\* the later call, and every request of the earlier call is dispatched before
\* any request of the later call: the two calls' requests never interleave.
C29_CallsDoNotInterleave ==
    /\ [](\A a, b \in DOMAIN areas : \A r \in Samples(areas[a]) :
            \A q \in Samples(areas[b]) :
                a < b =>
                    /\ r < q
                    /\ reqs[r].owner = a /\ reqs[q].owner = b
                    /\ reqs[q].st # "queued" => reqs[r].st # "queued"
                    /\ \A i, j \in DOMAIN queue :
                          (queue[i] = r /\ queue[j] = q) => i < j
                    /\ \A i, j \in DOMAIN callOrder :
                          (callOrder[i] = r /\ callOrder[j] = q) => i < j)
    /\ [][Len(areas') > Len(areas) =>
            LET new == areas'[Len(areas')]
            IN  /\ Len(areas') = Len(areas) + 1
                /\ Samples(new) = (Len(reqs) + 1)..Len(reqs')
                /\ Len(reqs') = Len(reqs) + new.total
                /\ \A r \in Samples(new) :
                      \/ \E i \in DOMAIN queue' : queue'[i] = r
                      \/ reqs'[r].st = "running"]_vars

\* the second request of the earlier call is being fetched; the request of
\* the later call waits
C29_Witness ==
    /\ Len(areas) = 2
    /\ areas[1].total = 2
    /\ areas[1].completed = 1
    /\ reqs[2].st = "running"
    /\ reqs[3].owner = 2
    /\ queue = <<3>>
    /\ callOrder = <<1, 2>>

\* the error that the outcome resp of an attempt stands for
ErrorOf(resp) ==
    IF resp.status = 429 THEN RateLimitError
    ELSE IF resp.status = 0 THEN NetworkError
    ELSE IF ResponseOk(resp.status) THEN JsonError
    ELSE HttpError(resp.status)

\* C32: a request that fails after MAX_RETRIES attempts is rejected with the
\* error of its last attempt alone, whatever the earlier attempts got: 'Rate
\* limit exceeded' if and only if the third attempt received a 429,
\* otherwise the error of the third attempt.
C32_ErrorOfLastAttempt ==
    (event.kind = "response" /\ reqs[event.req].st = "rejected") =>
        /\ event.attempt = 3
        /\ event.prev \in {0, 200, 429, 500}
        /\ reqs[event.req].error = RateLimitError <=> event.resp.status = 429
        /\ reqs[event.req].error = ErrorOf(event.resp)

\* a 500 on the second attempt and a 429 on the third: 'Rate limit exceeded'
C32_Witness ==
    /\ event.kind = "response"
    /\ event.attempt = 3
    /\ event.prev = 500
    /\ event.resp.status = 429
    /\ reqs[event.req].st = "rejected"
    /\ reqs[event.req].error = RateLimitError

-----------------------------------------------------------------------------
\* Deduplication of fetchCrimesForArea (policeApi.ts 140-151), evaluated on
\* its own over every small list of per-sample results.

MaxList == 2          \* records in one sample's result

\* two records whose persistent_id is the empty string, and one of the
\* incident 'a'
CrimeRecords == {Crime("", 1), Crime("", 2), Crime("a", 1)}

SeqsUpTo(S, n) == UNION {[1..k -> S] : k \in 0..n}

\* the results array of line 137: one list per sample, in grid scan order
ResultLists == SeqsUpTo(SeqsUpTo(CrimeRecords, MaxList), MaxGrid)

DedupInit ==
    /\ QueueInit
    /\ calc \in {[fn |-> "dedupe", results |-> r, out |-> <<>>, done |-> FALSE]
                   : r \in ResultLists}

\* lines 140-152 applied to the results
DedupeStep ==
    /\ calc.fn = "dedupe"
    /\ ~calc.done
    /\ calc' = [calc EXCEPT !.out = Dedupe(calc.results), !.done = TRUE]
    /\ UNCHANGED queueVars

DedupNext == DedupeStep

DedupSpec == DedupInit /\ [][DedupNext]_vars

\* positions <<sample, index>> of the results, and the scan order on them
Positions(results) ==
    UNION {{<<i, j>> : j \in DOMAIN results[i]} : i \in DOMAIN results}

ScanBefore(p, q) == p[1] < q[1] \/ (p[1] = q[1] /\ p[2] < q[2])

\* the first position in scan order that holds persistent_id pid
IsFirstOccurrence(results, pos) ==
    \A q \in Positions(results) :
        results[q[1]][q[2]].persistent_id
            = results[pos[1]][pos[2]].persistent_id
        => ~ScanBefore(q, pos)

FirstOccurrences(results) ==
    {pos \in Positions(results) : IsFirstOccurrence(results, pos)}

\* C11: the returned list has no two records with the same persistent_id; the
\* record kept for a persistent_id is the one at its first occurrence in the
\* scan order of the sample grid; the kept records appear in that order.
C11_FirstOccurrenceKept ==
    (calc.fn = "dedupe" /\ calc.done) =>
        LET results == calc.results
            out == calc.out
        IN  /\ \A k1, k2 \in DOMAIN out :
                  out[k1].persistent_id = out[k2].persistent_id => k1 = k2
            /\ Len(out) = Cardinality(FirstOccurrences(results))
            /\ \A k \in DOMAIN out :
                  \E pos \in FirstOccurrences(results) :
                      /\ out[k] = results[pos[1]][pos[2]]
                      /\ out[k].persistent_id
                           = results[pos[1]][pos[2]].persistent_id
            /\ \A k1, k2 \in DOMAIN out :
                  k1 < k2 =>
                      \E p1, p2 \in FirstOccurrences(results) :
                          /\ out[k1] = results[p1[1]][p1[2]]
                          /\ out[k2] = results[p2[1]][p2[2]]
                          /\ ScanBefore(p1, p2)

\* two samples report the same persistent_id (empty) on different records,
\* the second sample after a record of its own; the first sample's is kept
C11_Witness ==
    /\ calc.fn = "dedupe"
    /\ calc.done
    /\ calc.results = <<<<Crime("", 1)>>, <<Crime("a", 1), Crime("", 2)>>>>
    /\ calc.out = <<Crime("", 1), Crime("a", 1)>>

\* the persistent_id values of a list of records
PersistentIds(crimes) == {crimes[i].persistent_id : i \in DOMAIN crimes}

\* C33: deduplication loses nothing but duplicates: the persistent_id values
\* of the returned list are those occurring in any sample's result, and the
\* list has as many records as there are distinct persistent_id values, the
\* empty string counting as one value like any other.
C33_OnlyDuplicatesLost ==
    (calc.fn = "dedupe" /\ calc.done) =>
        LET all == PersistentIds(Flatten(calc.results))
        IN  /\ PersistentIds(calc.out) = all
            /\ Len(calc.out) = Cardinality(all)
            /\ \A k \in DOMAIN calc.out :
                  \E i \in DOMAIN calc.results :
                      \E j \in DOMAIN calc.results[i] :
                          calc.out[k] = calc.results[i][j]

\* two samples hold a record with the empty persistent_id each: one of them
\* is returned, with the record of incident 'a'
C33_Witness ==
    /\ calc.fn = "dedupe"
    /\ calc.done
    /\ calc.results = <<<<Crime("", 1), Crime("a", 1)>>, <<Crime("", 2)>>>>
    /\ PersistentIds(calc.out) = {"", "a"}
    /\ Len(calc.out) = 2

-----------------------------------------------------------------------------
\* getCurrentMonth (policeApi.ts 111-118), evaluated for every current date of
\* a common year and a leap year.  A Date is its local year, month (0-11, as
\* getMonth counts) and day of month; strings are sequences of characters.

Years == {2023, 2024}

IsLeapYear(y) == (y % 4 = 0 /\ y % 100 # 0) \/ y % 400 = 0

DaysInMonth(y, m) ==
    IF m = 1 THEN (IF IsLeapYear(y) THEN 29 ELSE 28)
    ELSE IF m \in {3, 5, 8, 10} THEN 30 ELSE 31

Dates ==
    {d \in [year : Years, month : 0..11, day : 1..31] :
        d.day <= DaysInMonth(d.year, d.month)}

RECURSIVE MakeDate(_, _, _)
\* the Date constructed from a year, a month and a day of month that may lie
\* outside their ranges: a month below 0 or above 11 carries into the year, a
\* day past the end of the month carries into the following month
MakeDate(y, m, d) ==
    IF m < 0 THEN MakeDate(y - 1, m + 12, d)
    ELSE IF m > 11 THEN MakeDate(y + 1, m - 12, d)
    ELSE IF d > DaysInMonth(y, m) THEN MakeDate(y, m + 1, d - DaysInMonth(y, m))
    ELSE [year |-> y, month |-> m, day |-> d]

\* Date.prototype.setMonth: the day of month is kept
setMonth(date, m) == MakeDate(date.year, m, date.day)

DigitChars == <<"0", "1", "2", "3", "4", "5", "6", "7", "8", "9">>

RECURSIVE String(_)
\* String(n) for a natural number
String(n) ==
    IF n < 10 THEN <<DigitChars[n + 1]>>
    ELSE String(n \div 10) \o <<DigitChars[(n % 10) + 1]>>

RECURSIVE padStart(_, _, _)
padStart(str, targetLength, ch) ==
    IF Len(str) >= targetLength THEN str
    ELSE padStart(<<ch>> \o str, targetLength, ch)

\* getCurrentMonth with `new Date()` = now
getCurrentMonth(now) ==
    LET then == setMonth(now, now.month - 2)
        year == then.year
        month == padStart(String(then.month + 1), 2, "0")
    IN  String(year) \o <<"-">> \o month

MonthInit ==
    /\ QueueInit
    /\ calc \in {[fn |-> "getCurrentMonth", now |-> d, out |-> <<>>,
                  done |-> FALSE] : d \in Dates}

GetCurrentMonthStep ==
    /\ calc.fn = "getCurrentMonth"
    /\ ~calc.done
    /\ calc' = [calc EXCEPT !.out = getCurrentMonth(calc.now), !.done = TRUE]
    /\ UNCHANGED queueVars

MonthNext == GetCurrentMonthStep

MonthSpec == MonthInit /\ [][MonthNext]_vars

\* 'YYYY-MM' of the calendar month two months before the month of date
TwoMonthsBefore(date) ==
    LET m == date.month + 1
        y == IF m <= 2 THEN date.year - 1 ELSE date.year
        t == IF m <= 2 THEN m + 10 ELSE m - 2
    IN  <<DigitChars[(y \div 1000) + 1], DigitChars[((y \div 100) % 10) + 1],
          DigitChars[((y \div 10) % 10) + 1], DigitChars[(y % 10) + 1], "-",
          DigitChars[(t \div 10) + 1], DigitChars[(t % 10) + 1]>>

\* C12: for every current date, the 29th, 30th and 31st included,
\* getCurrentMonth returns the zero-padded 'YYYY-MM' of the calendar month
\* exactly two months before the current month, the year decremented for
\* January and February.
C12_TwoMonthsBack ==
    (calc.fn = "getCurrentMonth" /\ calc.done) =>
        calc.out = TwoMonthsBefore(calc.now)

\* the same on the days every month has
C12_TwoMonthsBackUpTo28th ==
    (calc.fn = "getCurrentMonth" /\ calc.done /\ calc.now.day <= 28) =>
        calc.out = TwoMonthsBefore(calc.now)

\* 31 August 2024: setMonth(5) makes 31 June, which is 1 July
C12_EndOfMonth ==
    /\ calc.fn = "getCurrentMonth"
    /\ calc.done
    /\ calc.now = [year |-> 2024, month |-> 7, day |-> 31]
    /\ calc.out = <<"2", "0", "2", "4", "-", "0", "7">>

-----------------------------------------------------------------------------
\* Location resolution: isPostcodeFormat, lookupPostcode, lookupOutcode and
\* smartPostcodeLookup (postcodes.ts), isInLondon, geocodeLocation and
\* searchLocations (nominatim.ts).  One call is followed from its start to its
\* settlement; each provider's answer is an input.  Coordinates are in units
\* of 0.0001 degree.

MaxResults == 2       \* entries in one answer of the general geocoder

LONDON_BOUNDS ==
    [minLat |-> 512867, maxLat |-> 516918, minLon |-> -5103, maxLon |-> 3340]

UpperChars ==
    <<"A", "B", "C", "D", "E", "F", "G", "H", "I", "J", "K", "L", "M",
      "N", "O", "P", "Q", "R", "S", "T", "U", "V", "W", "X", "Y", "Z">>

LowerChars ==
    <<"a", "b", "c", "d", "e", "f", "g", "h", "i", "j", "k", "l", "m",
      "n", "o", "p", "q", "r", "s", "t", "u", "v", "w", "x", "y", "z">>

Range(f) == {f[i] : i \in DOMAIN f}

\* character classes of the two expressions, which carry the i flag
IsLetter(c) == c \in Range(UpperChars) \cup Range(LowerChars)
IsDigit(c) == c \in Range(DigitChars)
IsSpace(c) == c = " "

RECURSIVE trim(_)
trim(str) ==
    IF str = <<>> THEN str
    ELSE IF IsSpace(Head(str)) THEN trim(Tail(str))
    ELSE IF IsSpace(str[Len(str)]) THEN trim(SubSeq(str, 1, Len(str) - 1))
    ELSE str

toUpperCase(str) ==
    [i \in DOMAIN str |->
        IF str[i] \in Range(LowerChars)
        THEN UpperChars[CHOOSE k \in DOMAIN LowerChars : LowerChars[k] = str[i]]
        ELSE str[i]]

\* /^([A-Z]{1,2}[0-9][0-9A-Z]?)$/i
UK_OUTCODE_REGEX(str) ==
    \E k \in {1, 2} :
        /\ Len(str) \in {k + 1, k + 2}
        /\ \A i \in 1..k : IsLetter(str[i])
        /\ IsDigit(str[k + 1])
        /\ Len(str) = k + 2 => (IsDigit(str[k + 2]) \/ IsLetter(str[k + 2]))

\* /^([A-Z]{1,2}[0-9][0-9A-Z]?\s?[0-9][A-Z]{2})$/i
UK_POSTCODE_REGEX(str) ==
    \E n \in 2..4, sp \in {0, 1} :
        /\ Len(str) = n + sp + 3
        /\ UK_OUTCODE_REGEX(SubSeq(str, 1, n))
        /\ sp = 1 => IsSpace(str[n + 1])
        /\ IsDigit(str[n + sp + 1])
        /\ IsLetter(str[n + sp + 2])
        /\ IsLetter(str[n + sp + 3])

isPostcodeFormat(query) ==
    LET trimmed == toUpperCase(trim(query))
    IN  UK_POSTCODE_REGEX(trimmed) \/ UK_OUTCODE_REGEX(trimmed)

\* the queries followed: outcodes of 2 and 4 characters, an outcode in lower
\* case after a blank, postcodes with and without the blank, place names of 4
\* and 2 characters
Queries ==
    { <<"M", "1">>,
      <<"S", "W", "1", "A">>,
      <<" ", "e", "1">>,
      <<"E", "1", " ", "6", "A", "N">>,
      <<"s", "w", "1", "a", "1", "a", "a">>,
      <<"S", "o", "h", "o">>,
      <<"S", "o">> }

\* isInLondon without the two comparisons of lon
isInLondon_latOnly(lat, lon) ==
    /\ lat >= LONDON_BOUNDS.minLat
    /\ lat <= LONDON_BOUNDS.maxLat

\* lines 8-15 of nominatim.ts
isInLondon(lat, lon) ==
    /\ lat >= LONDON_BOUNDS.minLat
    /\ lat <= LONDON_BOUNDS.maxLat
    /\ lon >= LONDON_BOUNDS.minLon
    /\ lon <= LONDON_BOUNDS.maxLon

RECURSIVE StripZeros(_)
StripZeros(digits) ==
    IF digits # <<>> /\ digits[Len(digits)] = "0"
    THEN StripZeros(SubSeq(digits, 1, Len(digits) - 1))
    ELSE digits

\* String(x) for a coordinate: its shortest decimal
CoordString(x) ==
    LET a == IF x < 0 THEN -x ELSE x
        frac == StripZeros(padStart(String(a % 10000), 4, "0"))
    IN  (IF x < 0 THEN <<"-">> ELSE <<>>)
        \o String(a \div 10000)
        \o (IF frac = <<>> THEN <<>> ELSE <<".">> \o frac)

DigitValue(c) == (CHOOSE k \in DOMAIN DigitChars : DigitChars[k] = c) - 1

RECURSIVE ParseDigits(_, _)
\* the value of the leading digits of str after acc, and what follows them
ParseDigits(str, acc) ==
    IF str # <<>> /\ IsDigit(Head(str))
    THEN ParseDigits(Tail(str), [value |-> 10 * acc.value + DigitValue(Head(str)),
                                 count |-> acc.count + 1])
    ELSE [value |-> acc.value, count |-> acc.count, rest |-> str]

Pow10(n) == IF n = 0 THEN 1 ELSE IF n = 1 THEN 10 ELSE IF n = 2 THEN 100
            ELSE IF n = 3 THEN 1000 ELSE 10000

\* parseFloat of a decimal with at most four places; what follows the number
\* is ignored
parseFloat(str) ==
    LET neg == str # <<>> /\ Head(str) = "-"
        int == ParseDigits(IF neg THEN Tail(str) ELSE str,
                           [value |-> 0, count |-> 0])
        hasFrac == int.rest # <<>> /\ Head(int.rest) = "."
        frac == IF hasFrac
                THEN ParseDigits(SubSeq(Tail(int.rest), 1,
                                        Min(4, Len(int.rest) - 1)),
                                 [value |-> 0, count |-> 0])
                ELSE [value |-> 0, count |-> 0, rest |-> <<>>]
        a == int.value * 10000 + frac.value * Pow10(4 - frac.count)
    IN  IF neg THEN -a ELSE a

\* coordinates the providers can report: inside the bounds, on each corner of
\* the bounds, and 0.0001 degree outside each edge
Coords ==
    LET b == LONDON_BOUNDS
    IN  { [lat |-> 515074, lon |-> -1278],
          [lat |-> b.minLat, lon |-> b.minLon],
          [lat |-> b.maxLat, lon |-> b.maxLon],
          [lat |-> b.minLat - 1, lon |-> 0],
          [lat |-> b.maxLat + 1, lon |-> 0],
          [lat |-> 515000, lon |-> b.minLon - 1],
          [lat |-> 515000, lon |-> b.maxLon + 1] }

\* what postcodes.io can answer: the fetch throws (status 0), a status that
\* is not ok, an ok body that does not parse, result null, or a result
PostcodesResponses ==
    {[status |-> st, parses |-> FALSE, hasResult |-> FALSE,
      latitude |-> 0, longitude |-> 0] : st \in {0, 404, 500}}
      \cup {[status |-> 200, parses |-> ps, hasResult |-> FALSE,
             latitude |-> 0, longitude |-> 0] : ps \in BOOLEAN}
      \cup {[status |-> 200, parses |-> TRUE, hasResult |-> TRUE,
             latitude |-> c.lat, longitude |-> c.lon] : c \in Coords}

\* where the data of postcodes.io puts the postcode or outcode of a query: a
\* coordinate, or nowhere when it does not know the code
Unplaced == [known |-> FALSE, lat |-> 0, lon |-> 0]
Places == {Unplaced} \cup {[known |-> TRUE, lat |-> c.lat, lon |-> c.lon] : c \in Coords}

\* the answers postcodes.io can give about a code it places at place: a
\* failure in transit or of the service, or what its data says
PostcodesAnswers(place) ==
    {r \in PostcodesResponses :
        \/ r.status \in {0, 500}
        \/ r.status = 200 /\ ~r.parses
        \/ ~place.known /\ (r.status = 404 \/ (r.status = 200 /\ ~r.hasResult))
        \/ /\ place.known
           /\ r.hasResult
           /\ r.latitude = place.lat
           /\ r.longitude = place.lon}

\* a NominatimResult, reduced to its coordinates and type
NominatimResult(lat, lon, type) == [lat |-> lat, lon |-> lon, type |-> type]

\* what Nominatim can answer: the fetch throws, a status that is not ok, or a
\* list of places with their coordinates as strings
NominatimResponses ==
    {[status |-> st, results |-> <<>>] : st \in {0, 500}}
      \cup {[status |-> 200, results |-> r] :
              r \in SeqsUpTo({NominatimResult(CoordString(c.lat), CoordString(c.lon),
                                              "place") : c \in Coords},
                             MaxResults)}

\* error messages
FailedToFetch == "TypeError: Failed to fetch"
SyntaxError == "SyntaxError: Unexpected token in JSON"
PostcodesApiError == "Postcodes.io API error"
GeocodingFailed == "Geocoding failed"
PostcodeOutside == "This postcode is outside Greater London boundaries."
PostcodeAreaOutside == "This postcode area is outside Greater London boundaries."
LocationOutside == "This location is outside Greater London boundaries."

\* error.message.includes('outside Greater London')
IncludesOutsideGreaterLondon(msg) ==
    msg \in {PostcodeOutside, PostcodeAreaOutside, LocationOutside}

\* what a lookup hands to its caller
Throws(msg) == [kind |-> "throw", error |-> msg, lat |-> 0, lon |-> 0]
Null == [kind |-> "null", error |-> "", lat |-> 0, lon |-> 0]
Found(lat, lon) == [kind |-> "found", error |-> "", lat |-> lat, lon |-> lon]

\* the try block of a lookup (lines 61-96, 119-149) on the provider's answer
LookupTry(resp, outside) ==
    IF resp.status = 0 THEN Throws(FailedToFetch)
    ELSE IF resp.status # 200
         THEN (IF resp.status = 404 THEN Null ELSE Throws(PostcodesApiError))
    ELSE IF ~resp.parses THEN Throws(SyntaxError)
    ELSE IF ~resp.hasResult THEN Null
    ELSE IF ~isInLondon(resp.latitude, resp.longitude) THEN Throws(outside)
    ELSE Found(resp.latitude, resp.longitude)

\* lookupPostcode with a catch block that rethrows whatever it caught
lookupPostcode_rethrows(resp) == LookupTry(resp, PostcodeOutside)

\* lookupPostcode with a catch block that returns null whatever it caught
lookupPostcode_swallows(resp) ==
    LET tried == LookupTry(resp, PostcodeOutside)
    IN  IF tried.kind = "throw" THEN Null ELSE tried

\* lookupPostcode from the provider's answer on (lines 61-104)
lookupPostcode(resp) ==
    LET tried == LookupTry(resp, PostcodeOutside)
    IN  IF tried.kind = "throw" /\ ~IncludesOutsideGreaterLondon(tried.error)
        THEN Null
        ELSE tried

\* lookupOutcode from the provider's answer on (lines 119-156)
lookupOutcode(resp) ==
    LET tried == LookupTry(resp, PostcodeAreaOutside)
    IN  IF tried.kind = "throw" /\ ~IncludesOutsideGreaterLondon(tried.error)
        THEN Null
        ELSE tried

\* a call of geocodeLocation or searchLocations: where it waits, the providers
\* it has queried, their answers, and how it settled; precise is where
\* postcodes.io puts the query.  places is the list
\* searchLocations resolves with; for geocodeLocation it holds the one result,
\* and is empty for null
NewCall(fn, query) ==
    [fn |-> fn, query |-> query, pc |-> "start", calls |-> <<>>,
     answers |-> <<>>, settled |-> "pending", error |-> "", places |-> <<>>,
     precise |-> Unplaced]

ResolveCall(c, places) ==
    [c EXCEPT !.pc = "done", !.settled = "resolved", !.places = places]

RejectCall(c, msg) ==
    [c EXCEPT !.pc = "done", !.settled = "rejected", !.error = msg]

\* fetch(...) of a provider, and the await of its answer
FetchFrom(c, provider) ==
    [c EXCEPT !.pc = provider, !.calls = Append(@, provider)]

\* lines 35-50 and 92-107 of nominatim.ts
QueryNominatim(c) == FetchFrom(c, "nominatim")

\* lines 20-34 and 78-90 of nominatim.ts, after smartPostcodeLookup settled
\* with r
AfterSmartPostcodeLookup(c, r) ==
    IF r.kind = "throw" THEN RejectCall(c, r.error)
    ELSE IF r.kind = "found"
         THEN ResolveCall(c, <<NominatimResult(CoordString(r.lat),
                                               CoordString(r.lon), "postcode")>>)
    ELSE QueryNominatim(c)

\* lines 181-193 of postcodes.ts
TryOutcode(c) ==
    IF UK_OUTCODE_REGEX(trim(c.query))
    THEN FetchFrom(c, "outcodes")
    ELSE AfterSmartPostcodeLookup(c, Null)

\* lines 167-171 of postcodes.ts
smartPostcodeLookup(c) ==
    IF UK_POSTCODE_REGEX(trim(c.query))
    THEN FetchFrom(c, "postcodes")
    ELSE TryOutcode(c)

\* lines 171-179 of postcodes.ts, after lookupPostcode settled with r
AfterLookupPostcode(c, r) ==
    IF r.kind = "null" THEN TryOutcode(c) ELSE AfterSmartPostcodeLookup(c, r)

\* lines 183-193 of postcodes.ts, after lookupOutcode settled with r
AfterLookupOutcode(c, r) == AfterSmartPostcodeLookup(c, r)

\* lines 17-50 of nominatim.ts
geocodeLocation(query) ==
    LET c == NewCall("geocodeLocation", query)
    IN  IF isPostcodeFormat(query) THEN smartPostcodeLookup(c)
        ELSE QueryNominatim(c)

\* lines 73-107 of nominatim.ts
searchLocations(query) ==
    LET c == NewCall("searchLocations", query)
    IN  IF Len(query) < 3 THEN ResolveCall(c, <<>>)
        ELSE IF isPostcodeFormat(query) THEN smartPostcodeLookup(c)
        ELSE QueryNominatim(c)

InLondon(r) == isInLondon(parseFloat(r.lat), parseFloat(r.lon))

\* lines 46-70 of nominatim.ts
GeocodeAfterNominatim(c, resp) ==
    IF resp.status = 0 THEN RejectCall(c, FailedToFetch)
    ELSE IF resp.status # 200 THEN RejectCall(c, GeocodingFailed)
    ELSE IF Len(resp.results) = 0 THEN ResolveCall(c, <<>>)
    ELSE IF ~InLondon(resp.results[1]) THEN RejectCall(c, LocationOutside)
    ELSE ResolveCall(c, <<resp.results[1]>>)

\* lines 103-114 of nominatim.ts
SearchAfterNominatim(c, resp) ==
    IF resp.status = 0 THEN RejectCall(c, FailedToFetch)
    ELSE IF resp.status # 200 THEN ResolveCall(c, <<>>)
    ELSE ResolveCall(c, SelectSeq(resp.results, InLondon))

Answered(c, provider, resp) ==
    [c EXCEPT !.answers = Append(@, [provider |-> provider, resp |-> resp])]

GeoInit == QueueInit /\ calc = NoCalc

GeocodeLocation ==
    /\ calc = NoCalc
    /\ \E query \in Queries, place \in Places :
          calc' = [geocodeLocation(query) EXCEPT !.precise = place]
    /\ UNCHANGED queueVars

SearchLocations ==
    /\ calc = NoCalc
    /\ \E query \in Queries, place \in Places :
          calc' = [searchLocations(query) EXCEPT !.precise = place]
    /\ UNCHANGED queueVars

PostcodesResponds ==
    /\ calc # NoCalc
    /\ calc.pc = "postcodes"
    /\ \E resp \in PostcodesAnswers(calc.precise) :
          calc' = AfterLookupPostcode(Answered(calc, "postcodes", resp),
                                      lookupPostcode(resp))
    /\ UNCHANGED queueVars

OutcodesResponds ==
    /\ calc # NoCalc
    /\ calc.pc = "outcodes"
    /\ \E resp \in PostcodesAnswers(calc.precise) :
          calc' = AfterLookupOutcode(Answered(calc, "outcodes", resp),
                                     lookupOutcode(resp))
    /\ UNCHANGED queueVars

NominatimResponds ==
    /\ calc # NoCalc
    /\ calc.pc = "nominatim"
    /\ \E resp \in NominatimResponses :
          calc' = IF calc.fn = "geocodeLocation"
                  THEN GeocodeAfterNominatim(Answered(calc, "nominatim", resp), resp)
                  ELSE SearchAfterNominatim(Answered(calc, "nominatim", resp), resp)
    /\ UNCHANGED queueVars

GeoNext ==
    \/ GeocodeLocation
    \/ SearchLocations
    \/ PostcodesResponds
    \/ OutcodesResponds
    \/ NominatimResponds

GeoSpec == GeoInit /\ [][GeoNext]_vars

\* the call under study has settled
CallDone == calc # NoCalc /\ calc.pc = "done"

\* answers of postcodes.io (either lookup) that the call received
PreciseAnswers ==
    {calc.answers[i].resp : i \in {j \in DOMAIN calc.answers :
                                      calc.answers[j].provider # "nominatim"}}

\* postcodes.io failed in transit or as a service
IsTransientFailure(resp) ==
    resp.status \in {0, 500} \/ (resp.status = 200 /\ ~resp.parses)

Outside(lat, lon) ==
    \/ lat < LONDON_BOUNDS.minLat
    \/ lat > LONDON_BOUNDS.maxLat
    \/ lon < LONDON_BOUNDS.minLon
    \/ lon > LONDON_BOUNDS.maxLon

\* the call failed with the out-of-region error of the precise path and never
\* queried Nominatim
FailedFastOutOfRegion ==
    /\ calc.settled = "rejected"
    /\ calc.error \in {PostcodeOutside, PostcodeAreaOutside}
    /\ \A i \in DOMAIN calc.calls : calc.calls[i] # "nominatim"

\* C13 as stated: a query of postcode or outcode shape that postcodes.io places
\* outside LONDON_BOUNDS makes geocodeLocation and searchLocations fail with
\* the out-of-region error, Nominatim never queried (postcodes.io answering
\* without failure).
C13_OutsideFailsFast ==
    ( /\ CallDone
      /\ isPostcodeFormat(calc.query)
      /\ calc.precise.known
      /\ Outside(calc.precise.lat, calc.precise.lon)
      /\ \A resp \in PreciseAnswers : ~IsTransientFailure(resp) )
    => FailedFastOutOfRegion

\* C13, amended: whenever postcodes.io returns a coordinate outside
\* LONDON_BOUNDS for a query of postcode or outcode shape, geocodeLocation and
\* searchLocations fail with the out-of-region error and Nominatim is never
\* queried; searchLocations with a query shorter than 3 characters (a
\* two-character outcode) resolves with the empty list and queries no provider.
C13_ReturnedOutsideFailsFast ==
    /\ ( /\ CallDone
         /\ \E resp \in PreciseAnswers :
               resp.status = 200 /\ resp.parses /\ resp.hasResult
               /\ Outside(resp.latitude, resp.longitude) )
       => FailedFastOutOfRegion
    /\ ( /\ CallDone
         /\ isPostcodeFormat(calc.query)
         /\ calc.precise.known
         /\ Outside(calc.precise.lat, calc.precise.lon)
         /\ \A resp \in PreciseAnswers : ~IsTransientFailure(resp) )
       => \/ FailedFastOutOfRegion
          \/ /\ calc.fn = "searchLocations"
             /\ Len(calc.query) < 3
             /\ calc.settled = "resolved"
             /\ calc.places = <<>>
             /\ calc.calls = <<>>

\* searchLocations of the outcode 'SW1A', whose centroid postcodes.io reports
\* 0.0001 degree north of the bounds
C13_Witness ==
    /\ CallDone
    /\ calc.fn = "searchLocations"
    /\ calc.query = <<"S", "W", "1", "A">>
    /\ calc.calls = <<"outcodes">>
    /\ calc.answers[1].resp.latitude = LONDON_BOUNDS.maxLat + 1
    /\ calc.settled = "rejected"
    /\ calc.error = PostcodeAreaOutside

\* searchLocations of the outcode 'M1', placed outside the bounds: no error
C13_ShortOutcode ==
    /\ CallDone
    /\ calc.fn = "searchLocations"
    /\ calc.query = <<"M", "1">>
    /\ calc.precise.known
    /\ Outside(calc.precise.lat, calc.precise.lon)
    /\ calc.settled = "resolved"

\* C14: every coordinate geocodeLocation or searchLocations returns, by the
\* postcode, the outcode or the Nominatim path, lies within LONDON_BOUNDS,
\* edges included; Nominatim results outside the bounds are never returned.
C14_ReturnedWithinBounds ==
    (CallDone /\ calc.settled = "resolved") =>
        \A i \in DOMAIN calc.places :
            ~Outside(parseFloat(calc.places[i].lat), parseFloat(calc.places[i].lon))

\* searchLocations of 'Soho': Nominatim answers with a place 0.0001 degree
\* west of the bounds and the south-west corner of the bounds; the corner alone
\* is returned
C14_Witness ==
    /\ CallDone
    /\ calc.fn = "searchLocations"
    /\ calc.calls = <<"nominatim">>
    /\ Len(calc.answers[1].resp.results) = 2
    /\ parseFloat(calc.answers[1].resp.results[1].lon) = LONDON_BOUNDS.minLon - 1
    /\ calc.settled = "resolved"
    /\ Len(calc.places) = 1
    /\ parseFloat(calc.places[1].lat) = LONDON_BOUNDS.minLat
    /\ parseFloat(calc.places[1].lon) = LONDON_BOUNDS.minLon

\* C15: a network error or a non-404 error status of postcodes.io is never
\* surfaced by geocodeLocation or searchLocations: the lookup counts as a miss
\* and the resolution goes on to Nominatim; of the precise path only the
\* out-of-region determination fails the call.
C15_PreciseFailureIsAMiss ==
    /\ (calc # NoCalc /\ \E resp \in PreciseAnswers : resp.status \in {0, 500})
         => calc.calls[Len(calc.calls)] = "nominatim"
    /\ (CallDone /\ calc.settled = "rejected"
          /\ calc.calls[Len(calc.calls)] # "nominatim")
         => /\ calc.error \in {PostcodeOutside, PostcodeAreaOutside}
            /\ \E resp \in PreciseAnswers :
                  resp.hasResult /\ Outside(resp.latitude, resp.longitude)

\* geocodeLocation of 'E1 6AN': postcodes.io answers 500, Nominatim is queried
\* and its place is returned
C15_Witness ==
    /\ CallDone
    /\ calc.fn = "geocodeLocation"
    /\ calc.query = <<"E", "1", " ", "6", "A", "N">>
    /\ calc.calls = <<"postcodes", "nominatim">>
    /\ calc.answers[1].resp.status = 500
    /\ calc.settled = "resolved"
    /\ Len(calc.places) = 1

\* C30: when a query of strict postcode shape gets no precise match (404,
\* null result or swallowed transient failure), the outcode centroid lookup
\* is attempted for that query before the general geocoder (Nominatim) is
\* queried.
C30_OutcodeBeforeNominatim ==
    (calc # NoCalc /\ UK_POSTCODE_REGEX(trim(calc.query))) =>
        \A j \in DOMAIN calc.calls :
            calc.calls[j] = "nominatim" =>
                \E i \in 1..(j - 1) : calc.calls[i] = "outcodes"

\* geocodeLocation of 'E1 6AN': postcodes.io answers 404 and the next
\* provider queried is Nominatim
C30_PreciseMissGoesToNominatim ==
    /\ calc # NoCalc
    /\ calc.fn = "geocodeLocation"
    /\ calc.query = <<"E", "1", " ", "6", "A", "N">>
    /\ calc.answers # <<>>
    /\ calc.answers[1].resp.status = 404
    /\ calc.calls = <<"postcodes", "nominatim">>

\* no query of strict postcode shape ever reaches the outcode lookup
C30_NoOutcodeLookupForPostcode ==
    (calc # NoCalc /\ UK_POSTCODE_REGEX(trim(calc.query))) =>
        \A i \in DOMAIN calc.calls : calc.calls[i] # "outcodes"

\* ---- the query hooks (hooks/useGeocode.ts) around the resolver ----------

\* the retry option of a hook's query: 1 for useGeocode (line 20), the
\* queryClient's default of 2 (App.tsx) for useLocationSearch
Retry(hook) == IF hook = "useGeocode" THEN 1 ELSE 2

\* the queryFn of a hook: lines 8 and 17
HookQueryFn(hook, query) ==
    IF hook = "useGeocode" THEN geocodeLocation(query)
    ELSE searchLocations(query)

\* the enabled option of a hook: lines 9 and 18
Enabled(hook, query) ==
    IF hook = "useGeocode" THEN Len(query) > 0 ELSE Len(query) >= 3

\* a hook mounted with an enabled query: the query layer has run queryFn;
\* retried is the error of the failure the latest run of queryFn retries
HookInit ==
    /\ QueueInit
    /\ calc \in {[fn |-> "useQuery", hook |-> m[1], failureCount |-> 0,
                  retried |-> "",
                  call |-> [HookQueryFn(m[1], m[2]) EXCEPT !.precise = m[3]]]
                   : m \in {x \in {"useGeocode", "useLocationSearch"}
                                      \X Queries \X Places :
                               Enabled(x[1], x[2])}}

\* the provider the call waits for answers
ProviderResponds ==
    /\ calc.fn = "useQuery"
    /\ \E c \in {calc.call} :
        \/ /\ c.pc = "postcodes"
           /\ \E resp \in PostcodesAnswers(c.precise) :
                 calc' = [calc EXCEPT !.call =
                            AfterLookupPostcode(Answered(c, "postcodes", resp),
                                                lookupPostcode(resp))]
        \/ /\ c.pc = "outcodes"
           /\ \E resp \in PostcodesAnswers(c.precise) :
                 calc' = [calc EXCEPT !.call =
                            AfterLookupOutcode(Answered(c, "outcodes", resp),
                                               lookupOutcode(resp))]
        \/ /\ c.pc = "nominatim"
           /\ \E resp \in NominatimResponses :
                 calc' = [calc EXCEPT !.call =
                            IF c.fn = "geocodeLocation"
                            THEN GeocodeAfterNominatim(
                                     Answered(c, "nominatim", resp), resp)
                            ELSE SearchAfterNominatim(
                                     Answered(c, "nominatim", resp), resp)]
    /\ UNCHANGED queueVars

\* the query layer retries a queryFn whose promise rejected, whatever the
\* error, until failureCount reaches the retry option
QueryRetries ==
    /\ calc.fn = "useQuery"
    /\ calc.call.pc = "done"
    /\ calc.call.settled = "rejected"
    /\ calc.failureCount < Retry(calc.hook)
    /\ calc' = [calc EXCEPT
                  !.failureCount = @ + 1,
                  !.retried = calc.call.error,
                  !.call = [HookQueryFn(calc.hook, calc.call.query)
                               EXCEPT !.precise = calc.call.precise]]
    /\ UNCHANGED queueVars

HookNext == ProviderResponds \/ QueryRetries

HookSpec == HookInit /\ [][HookNext]_vars

\* C31: an out-of-region failure is never retried: once a resolution attempt
\* has found the coordinate outside LONDON_BOUNDS, no provider is contacted
\* again for that query on account of that failure, also not through the
\* hooks useGeocode and useLocationSearch.
C31_OutOfRegionNotRetried ==
    calc.fn = "useQuery" =>
        ~(/\ IncludesOutsideGreaterLondon(calc.retried)
          /\ calc.call.calls # <<>>)

\* useGeocode of 'SW1A', whose centroid lies outside the bounds: the first
\* run failed with the out-of-region error, and the query layer has run
\* geocodeLocation again, which queries postcodes.io again
C31_RetriedOutOfRegion ==
    /\ calc.fn = "useQuery"
    /\ calc.hook = "useGeocode"
    /\ calc.call.query = <<"S", "W", "1", "A">>
    /\ calc.failureCount = 1
    /\ calc.retried = PostcodeAreaOutside
    /\ calc.call.calls = <<"outcodes">>
    /\ calc.call.pc = "outcodes"

-----------------------------------------------------------------------------
\* generateGridCoordinates and haversineDistance (policeApi.ts 74-109),
\* evaluated for two radii around the same centre.  Latitudes and longitudes
\* are in units of 0.001 degree, radii in units of 0.1 km, distances in metres.

MaxRadius == 30       \* the largest radius, in units of 0.1 km

LAT_KM == 9
LON_KM == 14

\* the centres: London (the tests' centre), a point on the equator, a point
\* at 60 degrees north
Centres ==
    { [lat |-> 51507, lon |-> -128],
      [lat |-> 0, lon |-> 0],
      [lat |-> 60000, lon |-> 10000] }

\* R * (0.009 degree in radians), rounded up to a metre: the distance between
\* two points 0.009 degree of latitude apart
LatStepMetres == 1001

\* R * cos(lat) * (0.014 degree in radians), rounded to a metre: the distance
\* between two points at latitude lat 0.014 degree of longitude apart
LonStepMetres(lat) ==
    IF lat = 51507 THEN 969 ELSE IF lat = 0 THEN 1557 ELSE 778

RECURSIVE SqrtCeilBetween(_, _, _)
\* the least k in lo..hi with k * k >= x
SqrtCeilBetween(x, lo, hi) ==
    IF lo = hi THEN lo
    ELSE LET mid == (lo + hi) \div 2
         IN  IF mid * mid >= x THEN SqrtCeilBetween(x, lo, mid)
             ELSE SqrtCeilBetween(x, mid + 1, hi)

SqrtCeil(x) == SqrtCeilBetween(x, 0, 30000)

\* lines 97-109 for two points whose coordinates differ by multiples of LAT_KM
\* and LON_KM, as metres rounded up: over such distances the great circle is
\* the hypotenuse of the two steps to well under a metre
haversineDistance(lat1, lon1, lat2, lon2) ==
    LET dy == ((lat2 - lat1) * LatStepMetres) \div LAT_KM
        dx == ((lon2 - lon1) * LonStepMetres(lat1)) \div LON_KM
    IN  SqrtCeil(dy * dy + dx * dx)

\* Math.ceil(radiusKm)
Ceil(radiusKm) == (radiusKm + 9) \div 10

\* line 89 with the comparison the wrong way round
WithinRadius_flipped(distance, radiusKm) == distance > radiusKm * 100

\* line 89 without the comparison
WithinRadius_always(distance, radiusKm) == TRUE

\* line 89: distance <= radiusKm
WithinRadius(distance, radiusKm) == distance <= radiusKm * 100

\* lines 79-95: the points in the order of the two loops
generateGridCoordinates(centerLat, centerLon, radiusKm) ==
    LET steps == Ceil(radiusKm)
        side == 2 * steps + 1
        candidates ==
            [k \in 1..side * side |->
                [lat |-> centerLat + (((k - 1) \div side) - steps) * LAT_KM,
                 lon |-> centerLon + (((k - 1) % side) - steps) * LON_KM]]
        Keep(p) ==
            WithinRadius(haversineDistance(centerLat, centerLon, p.lat, p.lon),
                         radiusKm)
    IN  SelectSeq(candidates, Keep)

GridInit ==
    /\ QueueInit
    /\ calc \in {[fn |-> "generateGridCoordinates", center |-> c,
                  r1 |-> r1, r2 |-> r2, out1 |-> <<>>, out2 |-> <<>>,
                  done |-> FALSE] :
                    c \in Centres, r1 \in 1..MaxRadius, r2 \in 1..MaxRadius}

GenerateGridStep ==
    /\ calc.fn = "generateGridCoordinates"
    /\ ~calc.done
    /\ calc' = [calc EXCEPT
                  !.out1 = generateGridCoordinates(calc.center.lat,
                                                   calc.center.lon, calc.r1),
                  !.out2 = generateGridCoordinates(calc.center.lat,
                                                   calc.center.lon, calc.r2),
                  !.done = TRUE]
    /\ UNCHANGED queueVars

GridNext == GenerateGridStep

GridSpec == GridInit /\ [][GridNext]_vars

GridDone == calc.fn = "generateGridCoordinates" /\ calc.done

\* C16: for every centre and every radius r > 0 the list returned by
\* generateGridCoordinates contains the centre, and every point of it is at
\* haversine distance at most r from the centre.
C16_CentreAndWithinRadius ==
    GridDone =>
        /\ \E i \in DOMAIN calc.out1 : calc.out1[i] = calc.center
        /\ \A i \in DOMAIN calc.out1 :
              haversineDistance(calc.center.lat, calc.center.lon,
                                calc.out1[i].lat, calc.out1[i].lon)
                <= calc.r1 * 100

\* radius 1 km around the tests' centre: the centre and its two neighbours in
\* longitude (969 m) are kept, the neighbours in latitude (1001 m) are not
C16_Witness ==
    /\ GridDone
    /\ calc.center = [lat |-> 51507, lon |-> -128]
    /\ calc.r1 = 10
    /\ calc.out1 = << [lat |-> 51507, lon |-> -142],
                      [lat |-> 51507, lon |-> -128],
                      [lat |-> 51507, lon |-> -114] >>

C17_EqualCounts ==
    /\ GridDone
    /\ calc.r1 = 1
    /\ calc.r2 = 9
    /\ Len(calc.out1) = 1
    /\ Len(calc.out2) = 1

-----------------------------------------------------------------------------
\* aggregateCrimeData (utils/aggregation, lines 23-50 of the source file),
\* evaluated over small record lists.  A record is reduced to its category,
\* its street name and its month; a counting object is the list of its
\* [key, count] entries in insertion order, which is the order Object.entries
\* and Object.keys report.

MaxStreetRecords == 7 \* records in a list that varies the streets
MaxRecords == 3       \* records in a list that varies all three fields

TopStreetsLimit == 5

MaxStreets == TopStreetsLimit + 1

Record(category, street, month) ==
    [category |-> category, street |-> street, month |-> month]

Categories == {"burglary", "robbery"}
StreetNames == <<"High Street", "Oxford Street", "Baker Street", "Park Lane",
                 "Abbey Road", "Brick Lane", "Bond Street", "Fleet Street">>
Months ==
    { <<"2", "0", "2", "3", "-", "1", "2">>,
      <<"2", "0", "2", "4", "-", "0", "1">>,
      <<"2", "0", "2", "4", "-", "0", "2">> }

RECURSIVE MaxOf(_)
MaxOf(seq) == IF seq = <<>> THEN 0 ELSE Max(Head(seq), MaxOf(Tail(seq)))

RECURSIVE GrowthStrings(_)
\* the sequences of n street numbers in which each street is first used after
\* all streets of smaller number: one list for every way the records can
\* share streets (the code reads a street name only to compare it)
GrowthStrings(n) ==
    IF n = 0 THEN {<<>>}
    ELSE UNION {{Append(g, k) : k \in 1..Min(MaxOf(g) + 1, MaxStreets)}
                  : g \in GrowthStrings(n - 1)}

\* record lists that vary the streets, up to MaxStreets of them
StreetLists ==
    UNION {{[i \in DOMAIN g |->
                Record("burglary", StreetNames[g[i]],
                       <<"2", "0", "2", "4", "-", "0", "1">>)]
              : g \in GrowthStrings(n)} : n \in 0..MaxStreetRecords}

\* record lists that vary category, street and month
MixedLists ==
    SeqsUpTo({Record(c, StreetNames[k], m) :
                 c \in Categories, k \in 1..2, m \in Months}, MaxRecords)

HasKey(counts, key) == \E i \in DOMAIN counts : counts[i].key = key

\* counts[key] = (counts[key] || 0) + 1, always storing 1
Increment_always1(counts, key) ==
    IF HasKey(counts, key)
    THEN [i \in DOMAIN counts |->
            IF counts[i].key = key
            THEN [key |-> key, count |-> 1]
            ELSE counts[i]]
    ELSE Append(counts, [key |-> key, count |-> 1])

\* counts[key] = (counts[key] || 0) + 1
Increment(counts, key) ==
    IF HasKey(counts, key)
    THEN [i \in DOMAIN counts |->
            IF counts[i].key = key
            THEN [key |-> key, count |-> counts[i].count + 1]
            ELSE counts[i]]
    ELSE Append(counts, [key |-> key, count |-> 1])

RECURSIVE CountKeys_skipsLast(_, _)
\* the loop stopping one record early
CountKeys_skipsLast(keys, counts) ==
    IF Len(keys) <= 1 THEN counts
    ELSE CountKeys_skipsLast(Tail(keys), Increment(counts, Head(keys)))

RECURSIVE CountKeys(_, _)
\* the loop of lines 28-33 for one of the three counting objects, keys being
\* the records' values of its key
CountKeys(keys, counts) ==
    IF keys = <<>> THEN counts
    ELSE CountKeys(Tail(keys), Increment(counts, Head(keys)))

\* e placed in front of all entries
InsertByCount_atFront(sorted, e) == <<e>> \o sorted

RECURSIVE InsertByCount(_, _)
\* e placed behind every entry whose count is not smaller
InsertByCount(sorted, e) ==
    IF sorted = <<>> THEN <<e>>
    ELSE IF Head(sorted).count >= e.count
         THEN <<Head(sorted)>> \o InsertByCount(Tail(sorted), e)
         ELSE <<e>> \o sorted

\* the entries left in insertion order
SortByCountDesc_unsorted(entries) == entries

RECURSIVE SortByCountDesc(_)
\* .sort(([, a], [, b]) => b - a): stable, by count, largest first
SortByCountDesc(entries) ==
    IF entries = <<>> THEN <<>>
    ELSE InsertByCount(SortByCountDesc(SubSeq(entries, 1, Len(entries) - 1)),
                       entries[Len(entries)])

\* UTF-16 code units of the characters of a month string
CharCode(c) == IF c = "-" THEN 45 ELSE 48 + DigitValue(c)

RECURSIVE StringLess(_, _)
\* a < b as JavaScript compares strings
StringLess(a, b) ==
    IF b = <<>> THEN FALSE
    ELSE IF a = <<>> THEN TRUE
    ELSE IF Head(a) = Head(b) THEN StringLess(Tail(a), Tail(b))
    ELSE CharCode(Head(a)) < CharCode(Head(b))

RECURSIVE InsertString(_, _)
InsertString(sorted, str) ==
    IF sorted = <<>> THEN <<str>>
    ELSE IF StringLess(str, Head(sorted)) THEN <<str>> \o sorted
    ELSE <<Head(sorted)>> \o InsertString(Tail(sorted), str)

\* the keys left in insertion order
SortStrings_unsorted(strs) == strs

RECURSIVE SortStrings(_)
\* .sort() of an array of strings
SortStrings(strs) ==
    IF strs = <<>> THEN <<>>
    ELSE InsertString(SortStrings(Tail(strs)), Head(strs))

\* lines 23-50
\* months[i] inside a template literal: an index past the end reads undefined
MonthAt(months, i) ==
    IF i \in DOMAIN months THEN months[i]
    ELSE <<"u", "n", "d", "e", "f", "i", "n", "e", "d">>

DateRange_unguarded(months) ==
    MonthAt(months, 1) \o <<" ", "t", "o", " ">> \o MonthAt(months, Len(months))

\* line 41
DateRange(months) ==
    IF Len(months) > 0
    THEN MonthAt(months, 1) \o <<" ", "t", "o", " ">> \o MonthAt(months, Len(months))
    ELSE <<"N", "/", "A">>

aggregateCrimeData(crimes) ==
    LET categoryCounts ==
            CountKeys([i \in DOMAIN crimes |-> crimes[i].category], <<>>)
        streetCounts ==
            CountKeys([i \in DOMAIN crimes |-> crimes[i].street], <<>>)
        monthCounts ==
            CountKeys([i \in DOMAIN crimes |-> crimes[i].month], <<>>)
        sorted == SortByCountDesc(streetCounts)
        topStreets ==
            [i \in 1..Min(TopStreetsLimit, Len(sorted)) |->
                [street |-> sorted[i].key, count |-> sorted[i].count]]
        months == SortStrings([i \in DOMAIN monthCounts |-> monthCounts[i].key])
    IN  [totalCrimes |-> Len(crimes),
         dateRange |-> DateRange(months),
         categoryCounts |-> categoryCounts,
         topStreets |-> topStreets,
         byMonth |-> monthCounts]

AggInit ==
    /\ QueueInit
    /\ calc \in {[fn |-> "aggregateCrimeData", crimes |-> l,
                  out |-> aggregateCrimeData(<<>>), done |-> FALSE]
                   : l \in StreetLists \cup MixedLists}

AggregateStep ==
    /\ calc.fn = "aggregateCrimeData"
    /\ ~calc.done
    /\ calc' = [calc EXCEPT !.out = aggregateCrimeData(calc.crimes),
                            !.done = TRUE]
    /\ UNCHANGED queueVars

AggNext == AggregateStep

AggSpec == AggInit /\ [][AggNext]_vars

AggDone == calc.fn = "aggregateCrimeData" /\ calc.done

\* the number of records of the list on street st, in category cat
OnStreet(st) == Cardinality({i \in DOMAIN calc.crimes : calc.crimes[i].street = st})
InCategory(cat) ==
    Cardinality({i \in DOMAIN calc.crimes : calc.crimes[i].category = cat})

DistinctStreets == {calc.crimes[i].street : i \in DOMAIN calc.crimes}
DistinctCategories == {calc.crimes[i].category : i \in DOMAIN calc.crimes}
DistinctMonths == {calc.crimes[i].month : i \in DOMAIN calc.crimes}

\* C18: topStreets has min(5, number of distinct street names) entries, is
\* sorted by count in non-increasing order, each entry's count is the number of
\* records on its street, and no street left out has a larger count than a
\* street included.
C18_TopStreets ==
    AggDone =>
        LET top == calc.out.topStreets
            included == {top[i].street : i \in DOMAIN top}
        IN  /\ Len(top) = Min(5, Cardinality(DistinctStreets))
            /\ Cardinality(included) = Len(top)
            /\ \A i, j \in DOMAIN top : i < j => top[i].count >= top[j].count
            /\ \A i \in DOMAIN top :
                  /\ top[i].street \in DistinctStreets
                  /\ top[i].count = OnStreet(top[i].street)
            /\ \A st \in DistinctStreets \ included :
                  \A i \in DOMAIN top : OnStreet(st) <= top[i].count

\* seven records on six streets, the two on the sixth street last: that street
\* comes first, and 'Abbey Road', the fifth with one record, is left out
C18_Witness ==
    /\ AggDone
    /\ Len(calc.crimes) = 7
    /\ Cardinality(DistinctStreets) = 6
    /\ calc.crimes[6].street = "Brick Lane"
    /\ calc.crimes[7].street = "Brick Lane"
    /\ Len(calc.out.topStreets) = 5
    /\ calc.out.topStreets[1] = [street |-> "Brick Lane", count |-> 2]
    /\ \A i \in 1..5 : calc.out.topStreets[i].street # "Abbey Road"

\* C19: categoryCounts maps each category that occurs to the number of records
\* with that category and has no other keys; totalCrimes is the number of
\* records.
C19_CategoryCounts ==
    AggDone =>
        LET counts == calc.out.categoryCounts
        IN  /\ {counts[i].key : i \in DOMAIN counts} = DistinctCategories
            /\ Len(counts) = Cardinality(DistinctCategories)
            /\ \A i \in DOMAIN counts : counts[i].count = InCategory(counts[i].key)
            /\ calc.out.totalCrimes = Len(calc.crimes)

\* burglary, robbery, burglary: burglary 2, robbery 1, 3 records
C19_Witness ==
    /\ AggDone
    /\ Len(calc.crimes) = 3
    /\ calc.out.categoryCounts = << [key |-> "burglary", count |-> 2],
                                    [key |-> "robbery", count |-> 1] >>
    /\ calc.out.totalCrimes = 3

\* a <= b as strings
StringLeq(a, b) == a = b \/ StringLess(a, b)

\* C20: for a non-empty record list dateRange is '<earliest> to <latest>',
\* the minimum and the maximum of the records' month strings, whatever the
\* order of the records.
C20_DateRange ==
    (AggDone /\ calc.crimes # <<>>) =>
        \E earliest, latest \in DistinctMonths :
            /\ \A m \in DistinctMonths : StringLeq(earliest, m) /\ StringLeq(m, latest)
            /\ calc.out.dateRange = earliest \o <<" ", "t", "o", " ">> \o latest

\* records of 2024-02, 2023-12 and 2024-01 in this order: '2023-12 to 2024-02'
C20_Witness ==
    /\ AggDone
    /\ Len(calc.crimes) = 3
    /\ calc.crimes[1].month = <<"2", "0", "2", "4", "-", "0", "2">>
    /\ calc.crimes[2].month = <<"2", "0", "2", "3", "-", "1", "2">>
    /\ calc.crimes[3].month = <<"2", "0", "2", "4", "-", "0", "1">>
    /\ calc.out.dateRange = <<"2", "0", "2", "3", "-", "1", "2", " ", "t", "o", " ",
                              "2", "0", "2", "4", "-", "0", "2">>

\* C22: for the empty list aggregateCrimeData returns totalCrimes = 0,
\* dateRange = 'N/A', and empty categoryCounts, topStreets and
\* temporalDistribution.byMonth.
C22_EmptyList ==
    AggDone /\ calc.crimes = <<>> =>
        /\ calc.out.totalCrimes = 0
        /\ calc.out.dateRange = <<"N", "/", "A">>
        /\ calc.out.categoryCounts = <<>>
        /\ calc.out.topStreets = <<>>
        /\ calc.out.byMonth = <<>>

C22_Witness ==
    /\ AggDone
    /\ calc.crimes = <<>>
    /\ calc.out.totalCrimes = 0
    /\ calc.out.dateRange = <<"N", "/", "A">>

\* the number of records of the list with month m
InMonth(m) == Cardinality({i \in DOMAIN calc.crimes : calc.crimes[i].month = m})

RECURSIVE SumCounts(_)
SumCounts(counts) ==
    IF counts = <<>> THEN 0 ELSE Head(counts).count + SumCounts(Tail(counts))

\* C36: temporalDistribution.byMonth maps each month string that occurs to
\* the number of records with that month and has no other keys, so its counts
\* sum to totalCrimes.
C36_ByMonth ==
    AggDone =>
        LET byMonth == calc.out.byMonth
        IN  /\ {byMonth[i].key : i \in DOMAIN byMonth} = DistinctMonths
            /\ Len(byMonth) = Cardinality(DistinctMonths)
            /\ \A i \in DOMAIN byMonth : byMonth[i].count = InMonth(byMonth[i].key)
            /\ SumCounts(byMonth) = calc.out.totalCrimes
            /\ calc.out.totalCrimes = Len(calc.crimes)

\* records of 2024-01, 2024-02 and 2024-01: { '2024-01': 2, '2024-02': 1 }
C36_Witness ==
    /\ AggDone
    /\ Len(calc.crimes) = 3
    /\ calc.out.byMonth = << [key |-> <<"2", "0", "2", "4", "-", "0", "1">>, count |-> 2],
                             [key |-> <<"2", "0", "2", "4", "-", "0", "2">>, count |-> 1] >>
    /\ calc.out.totalCrimes = 3

\* aggregateCrimeData called on a record list and on a rearrangement of it:
\* every permutation of a list of up to MaxRecords records, every exchange of
\* two records of a longer list.

PermutationsOf(n) ==
    {p \in [1..n -> 1..n] : \A i, j \in 1..n : p[i] = p[j] => i = j}

Transpositions(n) ==
    {[k \in 1..n |-> IF k = i THEN j ELSE IF k = j THEN i ELSE k] :
        i \in 1..n, j \in 1..n}

Rearrangements(n) ==
    IF n <= MaxRecords THEN PermutationsOf(n) ELSE Transpositions(n)

OrderInit ==
    /\ QueueInit
    /\ \E l \in StreetLists \cup MixedLists :
         \E p \in Rearrangements(Len(l)) :
            calc = [fn |-> "aggregateCrimeData, permuted",
                    crimes |-> l,
                    permuted |-> [i \in DOMAIN l |-> l[p[i]]],
                    out |-> aggregateCrimeData(<<>>),
                    outPermuted |-> aggregateCrimeData(<<>>),
                    done |-> FALSE]

\* both calls; the function assigns to no element of its argument
AggregateBothStep ==
    /\ calc.fn = "aggregateCrimeData, permuted"
    /\ ~calc.done
    /\ calc' = [calc EXCEPT !.out = aggregateCrimeData(calc.crimes),
                            !.outPermuted = aggregateCrimeData(calc.permuted),
                            !.done = TRUE]
    /\ UNCHANGED queueVars

OrderNext == AggregateBothStep

OrderSpec == OrderInit /\ [][OrderNext]_vars

\* a counting object as the mapping it is
AsMap(counts) == {<<counts[i].key, counts[i].count>> : i \in DOMAIN counts}

CountsOf(top) == [i \in DOMAIN top |-> top[i].count]

\* C35: for a record list and a permutation of it, totalCrimes,
\* categoryCounts and byMonth as mappings, dateRange and the sequence of
\* counts in topStreets are the same; and the calls leave their lists as
\* they were.
C35_OrderInsensitive ==
    /\ [](calc.fn = "aggregateCrimeData, permuted" /\ calc.done =>
            /\ calc.out.totalCrimes = calc.outPermuted.totalCrimes
            /\ AsMap(calc.out.categoryCounts) = AsMap(calc.outPermuted.categoryCounts)
            /\ Len(calc.out.categoryCounts) = Len(calc.outPermuted.categoryCounts)
            /\ AsMap(calc.out.byMonth) = AsMap(calc.outPermuted.byMonth)
            /\ Len(calc.out.byMonth) = Len(calc.outPermuted.byMonth)
            /\ calc.out.dateRange = calc.outPermuted.dateRange
            /\ CountsOf(calc.out.topStreets) = CountsOf(calc.outPermuted.topStreets))
    /\ [][calc.fn = "aggregateCrimeData, permuted" =>
            calc'.crimes = calc.crimes /\ calc'.permuted = calc.permuted]_vars

\* a burglary of 2024-01 on High Street and a robbery of 2023-12 on Oxford
\* Street, in both orders: the keys are inserted in different orders and the
\* two streets, one record each, change places in topStreets
C35_Witness ==
    /\ calc.fn = "aggregateCrimeData, permuted"
    /\ calc.done
    /\ calc.crimes = << Record("burglary", "High Street", <<"2", "0", "2", "4", "-", "0", "1">>),
                        Record("robbery", "Oxford Street", <<"2", "0", "2", "3", "-", "1", "2">>) >>
    /\ calc.permuted = << calc.crimes[2], calc.crimes[1] >>
    /\ calc.out.categoryCounts # calc.outPermuted.categoryCounts
    /\ calc.out.topStreets[1].street = "High Street"
    /\ calc.outPermuted.topStreets[1].street = "Oxford Street"
    /\ calc.out.dateRange = calc.outPermuted.dateRange


-----------------------------------------------------------------------------
\* getCategoryPercentage (utils/aggregation, lines 59-62 of the source file).
\* The quotient and the product are computed as the JavaScript Number type
\* computes them: to 53 significant bits, rounded to nearest, ties to even.
\* A significand is a sequence of bits, most significant first; a Number x > 0
\* is [mant, exp] with value mant * 2^exp.

MaxTotal == 40        \* the largest totalCrimes of a summary

MantissaBits == 53

Zeros(n) == [i \in 1..n |-> 0]

RECURSIVE ToBits(_)
ToBits(n) == IF n = 0 THEN <<>> ELSE ToBits(n \div 2) \o <<n % 2>>

RECURSIVE FromBits(_)
FromBits(bits) ==
    IF bits = <<>> THEN 0
    ELSE 2 * FromBits(SubSeq(bits, 1, Len(bits) - 1)) + bits[Len(bits)]

\* the sum of two bit sequences of the same length and a carry: there is a
\* carry into position i iff some lower position (or the carry given) produces
\* one and every position in between passes it on
AddBits(a, b, carry) ==
    LET n == Len(a)
        CarryInto(i) ==
            \E j \in (i + 1)..(n + 1) :
                /\ IF j = n + 1 THEN carry = 1 ELSE a[j] = 1 /\ b[j] = 1
                /\ \A k \in (i + 1)..(j - 1) : a[k] = 1 \/ b[k] = 1
        bits == [i \in 1..n |->
                    (a[i] + b[i] + (IF CarryInto(i) THEN 1 ELSE 0)) % 2]
    IN  IF CarryInto(0) THEN <<1>> \o bits ELSE bits

RECURSIVE Pow2Mod(_, _)
\* 2^k modulo t
Pow2Mod(k, t) ==
    IF k = 0 THEN 1 % t
    ELSE LET h == Pow2Mod(k \div 2, t)
         IN  (((h * h) % t) * (IF k % 2 = 1 THEN 2 ELSE 1)) % t

\* what is left of r / t behind its first n bits, as a numerator over t
RemainderAfter(r, t, n) == (r * Pow2Mod(n, t)) % t

\* the first n bits behind the binary point of r / t, for 0 <= r < t
FractionBits(r, t, n) ==
    [i \in 1..n |-> IF 2 * RemainderAfter(r, t, i - 1) >= t THEN 1 ELSE 0]

RECURSIVE LeadingZeros(_, _)
\* the number of zero bits behind the binary point of r / t before its first
\* one bit, for 0 < r < t
LeadingZeros(r, t) == IF 2 * r >= t THEN 0 ELSE 1 + LeadingZeros(2 * r, t)

\* bits (leading bit 1), followed by something non-zero iff sticky, rounded to
\* MantissaBits bits, ties to even; dropped is the number of bits cut off
RoundToNearestEven(bits, sticky) ==
    IF Len(bits) <= MantissaBits
    THEN [mant |-> bits \o Zeros(MantissaBits - Len(bits)),
          dropped |-> Len(bits) - MantissaBits]
    ELSE LET kept == SubSeq(bits, 1, MantissaBits)
             guard == bits[MantissaBits + 1]
             rest == sticky \/ \E i \in MantissaBits + 2..Len(bits) : bits[i] = 1
             up == guard = 1 /\ (rest \/ kept[MantissaBits] = 1)
             sum == IF up THEN AddBits(kept, Zeros(MantissaBits), 1) ELSE kept
         IN  IF Len(sum) > MantissaBits
             THEN [mant |-> SubSeq(sum, 1, MantissaBits),
                   dropped |-> Len(bits) - MantissaBits + 1]
             ELSE [mant |-> sum, dropped |-> Len(bits) - MantissaBits]

\* the Number c / t for integers c > 0, t > 0
Divide(c, t) ==
    LET int == ToBits(c \div t)
        r == c % t
        zeros == IF int = <<>> /\ r > 0 THEN LeadingZeros(r, t) ELSE 0
        first == RemainderAfter(r, t, zeros)
        n == MantissaBits + 1 - Len(int)
        bits == int \o FractionBits(first, t, n)
        rounded == RoundToNearestEven(bits, RemainderAfter(first, t, n) # 0)
    IN  [mant |-> rounded.mant, exp |-> rounded.dropped - (zeros + n)]

\* the Number x * 100
Times100(x) ==
    LET w == MantissaBits + 7
        pad(k) == Zeros(w - MantissaBits - k) \o x.mant \o Zeros(k)
        sum == AddBits(AddBits(pad(6), pad(5), 0), pad(2), 0)
        product == IF sum[1] = 0 THEN Tail(sum) ELSE sum
        rounded == RoundToNearestEven(product, FALSE)
    IN  [mant |-> rounded.mant, exp |-> x.exp + rounded.dropped]

\* Math.round(x) for a Number 0 < x < 2^53: the nearest integer, a half up
MathRound(x) ==
    LET k == MantissaBits + x.exp
    IN  IF k < 0 THEN 0
        ELSE FromBits(SubSeq(x.mant, 1, k)) + x.mant[k + 1]

\* summary.categoryCounts[category] || 0
CountOrZero(counts, category) ==
    IF HasKey(counts, category)
    THEN counts[CHOOSE i \in DOMAIN counts : counts[i].key = category].count
    ELSE 0

\* lines 59-62
getCategoryPercentage(summary, category) ==
    LET count == CountOrZero(summary.categoryCounts, category)
    IN  IF summary.totalCrimes = 0 THEN 0
        ELSE IF count = 0 THEN 0
        ELSE MathRound(Times100(Divide(count, summary.totalCrimes)))

\* summaries with one category, which holds 0..totalCrimes of the records (a
\* summary of no records can carry any count, as the tests' one does)
Summaries ==
    {sm \in [totalCrimes : 0..MaxTotal,
             categoryCounts : {<<[key |-> "burglary", count |-> c]>>
                                  : c \in 0..MaxTotal}] :
        sm.totalCrimes = 0 \/ sm.categoryCounts[1].count <= sm.totalCrimes}

PercentInit ==
    /\ QueueInit
    /\ calc \in {[fn |-> "getCategoryPercentage", summary |-> sm,
                  category |-> cat, out |-> 0, done |-> FALSE]
                   : sm \in Summaries, cat \in {"burglary", "unknown"}}

GetCategoryPercentageStep ==
    /\ calc.fn = "getCategoryPercentage"
    /\ ~calc.done
    /\ calc' = [calc EXCEPT
                  !.out = getCategoryPercentage(calc.summary, calc.category),
                  !.done = TRUE]
    /\ UNCHANGED queueVars

PercentNext == GetCategoryPercentageStep

PercentSpec == PercentInit /\ [][PercentNext]_vars

\* num / den rounded to the nearest integer, a half rounded up
RoundHalfUp(num, den) == (2 * num + den) \div (2 * den)

PercentDone == calc.fn = "getCategoryPercentage" /\ calc.done

\* C21: getCategoryPercentage returns 0 when totalCrimes is 0 or the category
\* is absent from categoryCounts, and otherwise 100 * count / totalCrimes
\* rounded to the nearest integer, halves rounded up.
C21_RoundedPercentage ==
    PercentDone =>
        calc.out =
            IF \/ calc.summary.totalCrimes = 0
               \/ ~HasKey(calc.summary.categoryCounts, calc.category)
            THEN 0
            ELSE RoundHalfUp(
                     100 * CountOrZero(calc.summary.categoryCounts, calc.category),
                     calc.summary.totalCrimes)

\* 23 records of 40: 57.5 per cent
C21_HalfOfAPerCent ==
    /\ PercentDone
    /\ calc.summary.totalCrimes = 40
    /\ calc.summary.categoryCounts = <<[key |-> "burglary", count |-> 23]>>
    /\ calc.category = "burglary"
    /\ calc.out = 57

-----------------------------------------------------------------------------
\* formatSummaryForAI (services/gemini, lines 25-56 of the source file),
\* evaluated on summaries of up to MaxCategories categories.  The text is the
\* sequence of its lines, a line the sequence of the pieces it is put together
\* from: the characters of a converted string, or a literal piece as a whole.

MaxCategories == 11   \* categories of a summary

\* the category slugs of data.police.uk, as characters
CategoryNames ==
    << <<"d", "r", "u", "g", "s">>,
       <<"r", "o", "b", "b", "e", "r", "y">>,
       <<"b", "u", "r", "g", "l", "a", "r", "y">>,
       <<"o", "t", "h", "e", "r", "-", "c", "r", "i", "m", "e">>,
       <<"o", "t", "h", "e", "r", "-", "t", "h", "e", "f", "t">>,
       <<"s", "h", "o", "p", "l", "i", "f", "t", "i", "n", "g">>,
       <<"p", "u", "b", "l", "i", "c", "-", "o", "r", "d", "e", "r">>,
       <<"v", "i", "o", "l", "e", "n", "t", "-", "c", "r", "i", "m",
         "e">>,
       <<"v", "e", "h", "i", "c", "l", "e", "-", "c", "r", "i", "m",
         "e">>,
       <<"b", "i", "c", "y", "c", "l", "e", "-", "t", "h", "e", "f",
         "t">>,
       <<"p", "o", "s", "s", "e", "s", "s", "i", "o", "n", "-", "o", "f",
         "-", "w", "e", "a", "p", "o", "n", "s">>,
       <<"c", "r", "i", "m", "i", "n", "a", "l", "-", "d", "a", "m", "a",
         "g", "e", "-", "a", "r", "s", "o", "n">>,
       <<"t", "h", "e", "f", "t", "-", "f", "r", "o", "m", "-", "t", "h",
         "e", "-", "p", "e", "r", "s", "o", "n">>,
       <<"a", "n", "t", "i", "-", "s", "o", "c", "i", "a", "l", "-", "b",
         "e", "h", "a", "v", "i", "o", "u", "r">> >>

\* lines 25-30: split('-'), first character of each word to upper case,
\* join(' ')
formatCategoryName(category) ==
    [i \in DOMAIN category |->
        IF category[i] = "-" THEN " "
        ELSE IF i = 1 \/ category[i - 1] = "-"
             THEN toUpperCase(<<category[i]>>)[1]
             ELSE category[i]]

\* .slice(0, 5) in place of .slice(0, 10)
categoryLines_top5(summary) ==
    LET sorted == SortByCountDesc(summary.categoryCounts)
    IN  [i \in 1..Min(5, Len(sorted)) |->
            <<"- ">> \o formatCategoryName(sorted[i].key) \o <<": ">>
                \o String(sorted[i].count)]

\* lines 33-36: the lines of the ten largest categories
categoryLines(summary) ==
    LET sorted == SortByCountDesc(summary.categoryCounts)
    IN  [i \in 1..Min(10, Len(sorted)) |->
            <<"- ">> \o formatCategoryName(sorted[i].key) \o <<": ">>
                \o String(sorted[i].count)]

\* lines 39-40
streetLines(summary) ==
    [i \in DOMAIN summary.topStreets |->
        <<"- ", summary.topStreets[i].street, ": ">>
            \o String(summary.topStreets[i].count) \o <<" incidents">>]

\* join('\n') inside the template: no lines make one empty line
Joined(lines) == IF lines = <<>> THEN << <<>> >> ELSE lines

\* lines 43-55
formatSummaryForAI(location, summary) ==
    << <<"Location: ", location>>,
       <<"Total Incidents: ">> \o String(summary.totalCrimes),
       <<"Date Range: ">> \o summary.dateRange,
       <<>>,
       <<"Crime Categories:">> >>
    \o Joined(categoryLines(summary))
    \o << <<>>, <<"Hotspot Streets:">> >>
    \o Joined(streetLines(summary))
    \o << <<>>, <<"Generate a concise safety briefing for this area.">> >>

\* the counting objects with the first n slugs as keys, each counted once or
\* twice
RECURSIVE CategoryCountsOf(_)
CategoryCountsOf(n) ==
    IF n = 0 THEN {<<>>}
    ELSE {Append(cs, [key |-> CategoryNames[n], count |-> c]) :
            cs \in CategoryCountsOf(n - 1), c \in {1, 2}}

RECURSIVE SumOfCounts(_)
SumOfCounts(counts) ==
    IF counts = <<>> THEN 0 ELSE Head(counts).count + SumOfCounts(Tail(counts))

\* summaries as aggregateCrimeData returns them, with no or two top streets
FormatSummaries ==
    {[totalCrimes |-> SumOfCounts(cs),
      dateRange |-> DateRange(IF cs = <<>> THEN <<>>
                              ELSE <<<<"2", "0", "2", "4", "-", "0", "1">>>>),
      categoryCounts |-> cs,
      topStreets |-> ts]
        : cs \in UNION {CategoryCountsOf(n) : n \in 0..MaxCategories},
          ts \in {<<>>, <<[street |-> "High Street", count |-> 2],
                          [street |-> "Park Lane", count |-> 1]>>}}

FormatInit ==
    /\ QueueInit
    /\ calc \in {[fn |-> "formatSummaryForAI", location |-> "Soho",
                  summary |-> sm, out |-> <<>>, again |-> <<>>, done |-> FALSE]
                   : sm \in FormatSummaries}

\* the function is called twice with the same arguments
FormatSummaryStep ==
    /\ calc.fn = "formatSummaryForAI"
    /\ ~calc.done
    /\ calc' = [calc EXCEPT
                  !.out = formatSummaryForAI(calc.location, calc.summary),
                  !.again = formatSummaryForAI(calc.location, calc.summary),
                  !.done = TRUE]
    /\ UNCHANGED queueVars

FormatNext == FormatSummaryStep

FormatSpec == FormatInit /\ [][FormatNext]_vars

\* the line a category entry is rendered as, and the one of a street entry
CategoryLineOf(entry) ==
    <<"- ">> \o formatCategoryName(entry.key) \o <<": ">> \o String(entry.count)

StreetLineOf(entry) ==
    <<"- ", entry.street, ": ">> \o String(entry.count) \o <<" incidents">>

FormatDone == calc.fn = "formatSummaryForAI" /\ calc.done

\* the lines of all categories, by position in categoryCounts
AllCategoryLines ==
    [i \in DOMAIN calc.summary.categoryCounts |->
        CategoryLineOf(calc.summary.categoryCounts[i])] \o <<>>

\* for each category, whether its line is in the text
IsShown(lines) ==
    [i \in DOMAIN lines |-> \E j \in DOMAIN calc.out : calc.out[j] = lines[i]] \o <<>>

Shown == LET isShown == IsShown(AllCategoryLines) IN {i \in DOMAIN isShown : isShown[i]}

\* the category rendered on the j-th category line
CategoryAt(lines, j) == CHOOSE i \in DOMAIN lines : calc.out[5 + j] = lines[i]

\* C34 as stated: every category of categoryCounts appears in the text with
\* its count.
C34_EveryCategoryAppears ==
    FormatDone => Shown = DOMAIN calc.summary.categoryCounts

\* C34: the text holds the location, the total and the date range, then the
\* lines of the ten categories with the largest counts (of all of them when
\* there are at most ten) in non-increasing order of count, earlier keys first
\* among equal counts, then a line for every topStreets entry in order; and a
\* second call with the same arguments gives the same text.
C34_TenLargestCategories ==
    FormatDone =>
        LET cc == calc.summary.categoryCounts
            ts == calc.summary.topStreets
            k == Min(10, Len(cc))
            base == 7 + Max(k, 1)
            lines == AllCategoryLines
            isShown == IsShown(lines)
            at == [j \in 1..k |-> CategoryAt(lines, j)] \o <<>>
        IN  /\ Len(calc.out) = base + Max(Len(ts), 1) + 2
            /\ Cardinality({i \in DOMAIN cc : isShown[i]}) = k
            /\ calc.out[1] = <<"Location: ", calc.location>>
            /\ calc.out[2] = <<"Total Incidents: ">> \o String(calc.summary.totalCrimes)
            /\ calc.out[3] = <<"Date Range: ">> \o calc.summary.dateRange
            /\ \A j \in 1..k : calc.out[5 + j] = lines[at[j]]
            /\ Len(cc) <= 10 => \A i \in DOMAIN cc : isShown[i]
            /\ \A i \in DOMAIN cc : \A o \in DOMAIN cc :
                    isShown[i] /\ ~isShown[o] =>
                        \/ cc[i].count > cc[o].count
                        \/ cc[i].count = cc[o].count /\ i < o
            /\ \A j \in 1..k : \A l \in 1..k : j < l =>
                    \/ cc[at[j]].count > cc[at[l]].count
                    \/ cc[at[j]].count = cc[at[l]].count /\ at[j] < at[l]
            /\ \A i \in DOMAIN ts : calc.out[base + i] = StreetLineOf(ts[i])
            /\ calc.again = calc.out

\* eleven categories, the last one counted twice: it comes first in the text,
\* and the tenth, counted once, is left out
C34_Witness ==
    /\ FormatDone
    /\ Len(calc.summary.categoryCounts) = 11
    /\ calc.summary.categoryCounts[11].count = 2
    /\ \A i \in 1..10 : calc.summary.categoryCounts[i].count = 1
    /\ calc.out[6] = <<"- ", "P", "o", "s", "s", "e", "s", "s", "i", "o", "n",
                       " ", "O", "f", " ", "W", "e", "a", "p", "o", "n", "s",
                       ": ", "2">>
    /\ Shown = 1..11 \ {10}
    /\ calc.summary.topStreets # <<>>
    /\ calc.out[18] = <<"- ", "High Street", ": ", "2", " incidents">>

====
